---- MODULE Spec2Model ----
(***************************************************************************)
(* Model of the desugarer of src/ast/desugar/Desugar.cc: the lowering of a *)
(* parse tree (parser::Node) to the typed AST (ast::Expression), the       *)
(* top-level lift and the driver node2Tree with its one-shot               *)
(* internal-error flag.                                                    *)
(*                                                                         *)
(* Parse nodes and trees are records.  A parse node is                     *)
(*   [kind, name, kids, loc]                                               *)
(* where kids lists the node's children in declaration order (an absent    *)
(* child is Null) and loc is the node's source location, modelled as the   *)
(* node's path from the root.  A tree is                                   *)
(*   [kind, name, flags, kids, block, n]                                   *)
(* where block is the block slot of a Send (empty or one Block) and n      *)
(* splits kids where a node owns two lists (see the constructors).  Tree   *)
(* locations are not modelled.                                             *)
(***************************************************************************)
EXTENDS Integers, Sequences, FiniteSets, TLC

(* ------------------------------ bounds -------------------------------- *)

\* longest argument list of a call the parser hands over
MaxArgs == 2
\* longest statement list of the top-level Begin
MaxStmts == 2

(* ------------------------- program constants -------------------------- *)

\* u2 uniqueCounter: 16-bit unsigned
U2Modulus == 65536

(* ------------------------------ names --------------------------------- *)

\* core::NameRef: an interned utf8 name, a unique name minted by
\* freshNameUnique, a well-known symbol, or noName
UTF8(s) == [kind |-> "utf8", base |-> s, num |-> 0]
UniqueName(base, num) == [kind |-> "Desugar", base |-> base.base, num |-> num]
Symbol(s) == [kind |-> "symbol", base |-> s, num |-> 0]
noName == [kind |-> "none", base |-> "", num |-> 0]

\* core::Names, as generate_names.cc lists them
Names_assignTemp == UTF8("<assignTemp>")
Names_destructureArg == UTF8("<destructure>")
Names_blockPassTemp == UTF8("<block-pass>")
Names_forTemp == UTF8("forTemp")
Names_bang == UTF8("!")
Names_nil_p == UTF8("nil?")
Names_super == UTF8("super")
Names_each == UTF8("each")
Names_call == UTF8("call")
Names_to_a == UTF8("to_a")
Names_to_proc == UTF8("to_proc")
Names_concat == UTF8("concat")
Names_slice == UTF8("slice")
Names_new == UTF8("new")
Names_squareBrackets == UTF8("[]")
Names_callWithSplat == UTF8("<call-with-splat>")
Names_expandSplat == UTF8("<expand-splat>")
Names_splat == UTF8("<splat>")
Names_andAnd == UTF8("&&")
Names_orOr == UTF8("||")
Names_tripleEq == UTF8("===")
Names_rescueTemp == UTF8("<rescueTemp>")
Names_to_s == UTF8("to_s")
Names_intern == UTF8("intern")
Names_empty == UTF8("")
\* the name is the backquote character, which a TLA+ string cannot hold
Names_backtick == UTF8("<backtick>")
Names_orOp == UTF8("|")
Names_merge == UTF8("merge")
Names_to_hash == UTF8("to_hash")
Names_singleton == UTF8("<singleton class>")

(* ---------------------------- parse nodes ----------------------------- *)

Null == [kind |-> "null", name |-> noName, kids |-> <<>>, loc |-> <<>>]

\* a parse node before the parser has given it a location
P(kind, name, kids) == [kind |-> kind, name |-> name, kids |-> kids, loc |-> <<>>]
\* a parse node the desugarer synthesizes at a location it chooses
PAt(kind, name, kids, loc) == [kind |-> kind, name |-> name, kids |-> kids, loc |-> loc]

\* the parser gives every node its source location
RECURSIVE Locate(_, _)
Locate(node, path) ==
    IF node.kind = "null" THEN node
    ELSE [node EXCEPT !.loc = path,
                      !.kids = [i \in DOMAIN node.kids |-> Locate(node.kids[i], path \o <<i>>)]]

UnsupportedKinds ==
    {"Preexe", "Postexe", "Undef", "Backref", "IFlipflop", "EFlipflop", "MatchCurLine", "Redo"}

(* ------------------------------- trees -------------------------------- *)

T(kind, name, flags, kids, block, n) ==
    [kind |-> kind, name |-> name, flags |-> flags, kids |-> kids, block |-> block, n |-> n]

MK_EmptyTree == T("EmptyTree", noName, {}, <<>>, <<>>, 0)
MK_Self == T("Self", noName, {}, <<>>, <<>>, 0)
MK_Nil == T("Nil", noName, {}, <<>>, <<>>, 0)
MK_True == T("True", noName, {}, <<>>, <<>>, 0)
MK_False == T("False", noName, {}, <<>>, <<>>, 0)
MK_Int(i) == T("Int", noName, {}, <<>>, <<>>, i)
MK_String(name) == T("String", name, {}, <<>>, <<>>, 0)
MK_Symbol(name) == T("Symbol", name, {}, <<>>, <<>>, 0)
MK_Local(name) == T("Local", name, {}, <<>>, <<>>, 0)
MK_Constant(sym) == T("Constant", Symbol(sym), {}, <<>>, <<>>, 0)
MK_UnresolvedIdent(vkind, name) == T("UnresolvedIdent", name, {vkind}, <<>>, <<>>, 0)
MK_UnresolvedConstant(scope, name) == T("UnresolvedConstant", name, {}, <<scope>>, <<>>, 0)
MK_ZSuperArgs == T("ZSuperArgs", noName, {}, <<>>, <<>>, 0)
\* kids = <<recv>> \o args; block = <<>> or <<Block>>
MK_Send(recv, fun, args, flags, block) == T("Send", fun, flags, <<recv>> \o args, block, 0)
MK_Send0(recv, fun) == MK_Send(recv, fun, <<>>, {}, <<>>)
MK_Send1(recv, fun, a1) == MK_Send(recv, fun, <<a1>>, {}, <<>>)
MK_Send2(recv, fun, a1, a2) == MK_Send(recv, fun, <<a1, a2>>, {}, <<>>)
MK_Send3(recv, fun, a1, a2, a3) == MK_Send(recv, fun, <<a1, a2, a3>>, {}, <<>>)
MK_Assign(lhs, rhs) == T("Assign", noName, {}, <<lhs, rhs>>, <<>>, 0)
MK_AssignName(name, rhs) == MK_Assign(MK_Local(name), rhs)
\* kids = stats \o <<expr>>
MK_InsSeq(stats, expr) == T("InsSeq", noName, {}, stats \o <<expr>>, <<>>, Len(stats))
MK_InsSeq1(stat, expr) == MK_InsSeq(<<stat>>, expr)
MK_If(cond, thenp, elsep) == T("If", noName, {}, <<cond, thenp, elsep>>, <<>>, 0)
MK_While(cond, body) == T("While", noName, {}, <<cond, body>>, <<>>, 0)
MK_Break(expr) == T("Break", noName, {}, <<expr>>, <<>>, 0)
MK_Array(elems) == T("Array", noName, {}, elems, <<>>, 0)
\* kids = keys \o values, n = number of keys
MK_Hash(keys, values) == T("Hash", noName, {}, keys \o values, <<>>, Len(keys))
MK_RestArg(inner) == T("RestArg", noName, {}, <<inner>>, <<>>, 0)
MK_Splat(arg) == MK_Send1(MK_Constant("Magic"), Names_splat, arg)
\* kids = args \o <<body>>, n = number of args
MK_Block(args, body) == T("Block", noName, {}, args \o <<body>>, <<>>, Len(args))
MK_Method(name, args, body) == T("MethodDef", name, {}, args \o <<body>>, <<>>, Len(args))
\* kids = <<name>> \o ancestors \o rhs, n = number of ancestors,
\* name = the symbol, flags = {the ClassDefKind}
MK_ClassDef(sym, name, ancestors, rhs, ckind) ==
    T("ClassDef", Symbol(sym), {ckind}, <<name>> \o ancestors \o rhs, <<>>, Len(ancestors))

\* kids = <<body>> \o cases \o <<else, ensure>>, n = number of cases
MK_Rescue(body, cases, else_, ensure) ==
    T("Rescue", noName, {}, <<body>> \o cases \o <<else_, ensure>>, <<>>, Len(cases))
\* kids = exceptions \o <<var, body>>, n = number of exceptions
MK_RescueCase(exceptions, var, body) ==
    T("RescueCase", noName, {}, exceptions \o <<var, body>>, <<>>, Len(exceptions))

isa_tree(t, kind) == t.kind = kind

\* cast_tree<Reference>: a local or an unresolved identifier
isa_reference(t) == t.kind \in {"Local", "UnresolvedIdent"}
\* MK::cpRef
MK_cpRef(t) == t

\* cast_tree<UnresolvedIdent> of kind Local: what MK::Local builds
isa_localIdent(t) == t.kind = "Local"

RescueBody(t) == t.kids[1]
RescueCases(t) == SubSeq(t.kids, 2, t.n + 1)
RescueElse(t) == t.kids[t.n + 2]
RescueEnsure(t) == t.kids[t.n + 3]
SendRecv(t) == t.kids[1]
SendArgs(t) == Tail(t.kids)
InsSeqStats(t) == SubSeq(t.kids, 1, t.n)
InsSeqExpr(t) == t.kids[Len(t.kids)]
ClassDefName(t) == t.kids[1]
ClassDefAncestors(t) == SubSeq(t.kids, 2, t.n + 1)
ClassDefRhs(t) == SubSeq(t.kids, t.n + 2, Len(t.kids))

(* ------------------------------- world -------------------------------- *)

\* What a lowering reads and writes besides its counter: the error queue and
\* the name table of ctx.state (errs, mints), the file-scoped flag
\* locReported, a SorbetException in flight (exc), and the log of the
\* node2TreeImpl frames that have returned or unwound (frames).  rtl tells
\* whether the build evaluates the arguments of a call from right to left,
\* which the language leaves to the compiler.
World0(reported) ==
    [errs |-> <<>>, mints |-> <<>>, locReported |-> reported, exc |-> FALSE, frames |-> <<>>,
     rtl |-> FALSE]

\* a counter object: u2 uniqueCounter, identified by the place that declares it
\* NameRef::addEq: the name of the setter
addEq(name) == UTF8(name.base \o "=")

Counter(by, at) == [id |-> [by |-> by, at |-> at], val |-> 1]

R(tree, w, uc) == [tree |-> tree, w |-> w, uc |-> uc]

\* ctx.state.beginError(loc, code)
beginError(w, loc, code) == [w EXCEPT !.errs = Append(@, [code |-> code, loc |-> loc])]

\* Exception::raise, Exception::notImplemented, a failed ENFORCE
Exception_raise(w) == [w EXCEPT !.exc = TRUE]

\* freshNameUnique handed uniqueCounter instead of ++uniqueCounter
freshNameUnique_stale(w, uc, base) ==
    IF w.exc THEN [name |-> noName, w |-> w, uc |-> uc]
    ELSE [name |-> UniqueName(base, uc.val),
          w |-> [w EXCEPT !.mints = Append(@, [kind |-> "Desugar", base |-> base.base,
                                                num |-> uc.val, scope |-> uc.id])],
          uc |-> uc]

\* ctx.state.freshNameUnique(core::UniqueNameKind::Desugar, base, ++uniqueCounter);
\* no statement runs while an exception unwinds
freshNameUnique(w, uc, base) ==
    LET num == (uc.val + 1) % U2Modulus
    IN IF w.exc THEN [name |-> noName, w |-> w, uc |-> uc]
       ELSE [name |-> UniqueName(base, num),
             w |-> [w EXCEPT !.mints = Append(@, [kind |-> "Desugar", base |-> base.base,
                                                   num |-> num, scope |-> uc.id])],
             uc |-> [uc EXCEPT !.val = num]]

(* ------------------------------ lowering ------------------------------ *)

\* Sequencing: v is evaluated once, then K runs on its value (a statement
\* after a statement).
Then(v, K(_)) == CHOOSE y \in {K(x) : x \in {v}} : TRUE

RECURSIVE node2TreeImpl(_, _, _)
RECURSIVE LowerAll(_, _, _)
RECURSIVE desugarMlhs(_, _, _, _, _)
RECURSIVE MlhsLoop(_, _, _, _)
RECURSIVE ArgsLoop(_, _)
RECURSIVE SendArgsLoop(_, _)
RECURSIVE ArrayLoop(_, _)
RECURSIVE HashLoop(_, _)
RECURSIVE DStringLoop(_, _, _)
RECURSIVE DSymbolLoop(_, _)
RECURSIVE RegoptLoop(_, _)
RECURSIVE AsgnArgsLoop(_, _, _)
RECURSIVE RescueCasesLoop(_, _)
RECURSIVE CasePatternsLoop(_, _, _, _)
RECURSIVE CaseWhensLoop(_, _, _, _)

\* for (auto &stat : nodes) out.emplace_back(node2TreeImpl(ctx, std::move(stat), uniqueCounter))
LowerAll(nodes, w, uc) ==
    IF nodes = <<>> THEN [trees |-> <<>>, w |-> w, uc |-> uc]
    ELSE Then(node2TreeImpl(Head(nodes), w, uc), LAMBDA r :
         Then(LowerAll(Tail(nodes), r.w, r.uc), LAMBDA rest :
             [trees |-> <<r.tree>> \o rest.trees, w |-> rest.w, uc |-> rest.uc]))

\* node2Proc giving the symbol's block a rest parameter
node2Proc_restForSymbol(node, w, uc) ==
    IF node.kind = "null" THEN [block |-> <<>>, w |-> w, uc |-> uc]
    ELSE Then(node2TreeImpl(node, w, uc), LAMBDA r :
         Then(freshNameUnique(r.w, r.uc, Names_blockPassTemp), LAMBDA m :
             LET expr == r.tree
                 temp == m.name
             IN IF isa_tree(expr, "Symbol")
                THEN [block |-> <<MK_Block(<<MK_RestArg(MK_Local(temp))>>,
                                           MK_Send0(MK_Local(temp), expr.name))>>,
                      w |-> m.w, uc |-> m.uc]
                ELSE LET proc == MK_Send0(expr, Names_to_proc)
                         body == MK_Send3(MK_Constant("Magic"), Names_callWithSplat, proc,
                                          MK_Symbol(Names_call), MK_Local(temp))
                     IN [block |-> <<MK_Block(<<MK_RestArg(MK_Local(temp))>>, body)>>,
                         w |-> m.w, uc |-> m.uc]))

node2Proc(node, w, uc) ==
    IF node.kind = "null" THEN [block |-> <<>>, w |-> w, uc |-> uc]
    ELSE Then(node2TreeImpl(node, w, uc), LAMBDA r :
         Then(freshNameUnique(r.w, r.uc, Names_blockPassTemp), LAMBDA m :
             LET expr == r.tree
                 temp == m.name
             IN IF isa_tree(expr, "Symbol")
                THEN [block |-> <<MK_Block(<<MK_Local(temp)>>,
                                           MK_Send0(MK_Local(temp), expr.name))>>,
                      w |-> m.w, uc |-> m.uc]
                ELSE LET proc == MK_Send0(expr, Names_to_proc)
                         body == MK_Send3(MK_Constant("Magic"), Names_callWithSplat, proc,
                                          MK_Symbol(Names_call), MK_Local(temp))
                     IN [block |-> <<MK_Block(<<MK_RestArg(MK_Local(temp))>>, body)>>,
                         w |-> m.w, uc |-> m.uc]))

unsupportedNode(node, w) ==
    [tree |-> MK_EmptyTree, w |-> beginError(w, node.loc, "UnsupportedNode")]

\* the range exclusive exactly when no target follows the splat
SplatRange_exclusiveLast(left, right0) ==
    MK_Send3(MK_Constant("Range"), Names_new, MK_Int(left), MK_Int(-right0),
             IF right0 = 0 THEN MK_True ELSE MK_False)

\* the index of the slice a named splat target takes; right0 = the number of
\* targets after the splat
SplatRange(left, right0) ==
    LET right == IF right0 = 0 THEN 1 ELSE right0
        exclusive == IF right0 = 0 THEN MK_False ELSE MK_True
    IN MK_Send3(MK_Constant("Range"), Names_new, MK_Int(left), MK_Int(-right), exclusive)

\* the body of the loop of desugarMlhs over lhs->exprs, from element k on;
\* st = [i, before, after, didSplat, stats, w, uc]
MlhsLoop(lhs, tempName, k, st) ==
    IF k > Len(lhs.kids) \/ st.w.exc THEN st
    ELSE LET c == lhs.kids[k]
         IN IF c.kind = "SplatLhs"
            THEN IF st.didSplat
                 THEN [st EXCEPT !.w = Exception_raise(@)]
                 ELSE Then(node2TreeImpl(c.kids[1], st.w, st.uc), LAMBDA r :
                      LET lh == r.tree
                          left == st.i
                          right0 == Len(lhs.kids) - left - 1
                          named == ~isa_tree(lh, "EmptyTree")
                          right == IF named /\ right0 = 0 THEN 1 ELSE right0
                          index == SplatRange(left, right0)
                          stat == MK_Assign(lh, MK_Send1(MK_Local(tempName), Names_slice, index))
                      IN Then([st EXCEPT !.didSplat = TRUE,
                                         !.stats = IF named THEN Append(@, stat) ELSE @,
                                         !.i = -right, !.w = r.w, !.uc = r.uc], LAMBDA st1 :
                         MlhsLoop(lhs, tempName, k + 1, st1)))
            ELSE LET val == MK_Send1(MK_Local(tempName), Names_squareBrackets, MK_Int(st.i))
                 IN Then(IF c.kind = "Mlhs"
                         THEN desugarMlhs(c.loc, c, val, st.w, st.uc)
                         ELSE Then(node2TreeImpl(c, st.w, st.uc), LAMBDA rl :
                                  R(MK_Assign(rl.tree, val), rl.w, rl.uc)), LAMBDA r :
                    Then([st EXCEPT !.before = IF st.didSplat THEN @ ELSE @ + 1,
                                    !.after = IF st.didSplat THEN @ + 1 ELSE @,
                                    !.stats = Append(@, r.tree),
                                    !.i = @ + 1, !.w = r.w, !.uc = r.uc], LAMBDA st1 :
                       MlhsLoop(lhs, tempName, k + 1, st1)))

\* desugarMlhs handing expandSplat its counts the wrong way round
desugarMlhs_swapped(loc, lhs, rhs, w, uc) ==
    Then(freshNameUnique(w, uc, Names_assignTemp), LAMBDA m :
    Then(MlhsLoop(lhs, m.name, 1,
                  [i |-> 0, before |-> 0, after |-> 0, didSplat |-> FALSE,
                   stats |-> <<>>, w |-> m.w, uc |-> m.uc]), LAMBDA st :
        LET expanded == MK_Send3(MK_Constant("Magic"), Names_expandSplat, rhs,
                                 MK_Int(st.after), MK_Int(st.before))
        IN R(MK_InsSeq(<<MK_AssignName(m.name, expanded)>> \o st.stats, MK_Local(m.name)),
             st.w, st.uc)))

desugarMlhs(loc, lhs, rhs, w, uc) ==
    Then(freshNameUnique(w, uc, Names_assignTemp), LAMBDA m :
    Then(MlhsLoop(lhs, m.name, 1,
                  [i |-> 0, before |-> 0, after |-> 0, didSplat |-> FALSE,
                   stats |-> <<>>, w |-> m.w, uc |-> m.uc]), LAMBDA st :
        LET tempName == m.name
            expanded == MK_Send3(MK_Constant("Magic"), Names_expandSplat, rhs,
                                 MK_Int(st.before), MK_Int(st.after))
            stats == <<MK_AssignName(tempName, expanded)>> \o st.stats
        IN R(MK_InsSeq(stats, MK_Local(tempName)), st.w, st.uc)))

\* the loop of desugarArgsAndBody over oargs->args;
\* st = [args, destructures, w, uc]
ArgsLoop(formals, st) ==
    IF formals = <<>> THEN st
    ELSE LET arg == Head(formals)
         IN IF arg.kind = "Mlhs"
            THEN Then(freshNameUnique(st.w, st.uc, Names_destructureArg), LAMBDA m :
                 LET temporary == m.name
                     lvarNode == PAt("LVar", temporary, <<>>, arg.loc)
                     destructure == PAt("Masgn", noName, <<arg, lvarNode>>, arg.loc)
                 IN Then(node2TreeImpl(destructure, m.w, m.uc), LAMBDA r :
                    Then([args |-> Append(st.args, MK_Local(temporary)),
                          destructures |-> Append(st.destructures, r.tree),
                          w |-> r.w, uc |-> r.uc], LAMBDA st1 :
                       ArgsLoop(Tail(formals), st1))))
            ELSE Then(node2TreeImpl(arg, st.w, st.uc), LAMBDA r :
                 Then([args |-> Append(st.args, r.tree),
                       destructures |-> st.destructures, w |-> r.w, uc |-> r.uc], LAMBDA st1 :
                    ArgsLoop(Tail(formals), st1)))

\* desugarArgsAndBody leaving the destructuring assignments out of the body
desugarArgsAndBody_unwrapped(loc, argnode, bodynode, w, uc) ==
    Then([args |-> <<>>, destructures |-> <<>>, w |-> w, uc |-> uc], LAMBDA st0 :
    Then(IF argnode.kind = "Args" THEN ArgsLoop(argnode.kids, st0)
         ELSE IF argnode.kind = "null" THEN st0
         ELSE [st0 EXCEPT !.w = Exception_raise(@)], LAMBDA st :
    Then(node2TreeImpl(bodynode, st.w, st.uc), LAMBDA rb :
        [args |-> st.args, body |-> rb.tree, w |-> rb.w, uc |-> rb.uc])))

desugarArgsAndBody(loc, argnode, bodynode, w, uc) ==
    Then([args |-> <<>>, destructures |-> <<>>, w |-> w, uc |-> uc], LAMBDA st0 :
    Then(IF argnode.kind = "Args" THEN ArgsLoop(argnode.kids, st0)
         ELSE IF argnode.kind = "null" THEN st0
         ELSE [st0 EXCEPT !.w = Exception_raise(@)], LAMBDA st :
    Then(node2TreeImpl(bodynode, st.w, st.uc), LAMBDA rb :
        LET body == IF st.destructures # <<>> THEN MK_InsSeq(st.destructures, rb.tree)
                    ELSE rb.tree
        IN [args |-> st.args, body |-> body, w |-> rb.w, uc |-> rb.uc])))

buildMethod(loc, name, argnode, body, w, uc) ==
    Then(desugarArgsAndBody(loc, argnode, body, w, uc), LAMBDA ab :
        R(MK_Method(name, ab.args, ab.body), ab.w, ab.uc))

scopeNodeToBody(node, w) ==
    LET uniqueCounter == Counter("scopeNodeToBody", node.loc)
    IN IF node.kind = "Begin"
       THEN Then(LowerAll(node.kids, w, uniqueCounter), LAMBDA rs :
                [body |-> rs.trees, w |-> rs.w])
       ELSE Then(node2TreeImpl(node, w, uniqueCounter), LAMBDA r :
                [body |-> <<r.tree>>, w |-> r.w])

(* ------------------- the clauses of node2TreeImpl --------------------- *)

\* parser::Send, parser::CSend: kids = <<receiver>> \o args, name = method
Receiver(send) == send.kids[1]
CallArgs(send) == Tail(send.kids)

IndexOfKind(nodes, kind) ==
    IF \E i \in DOMAIN nodes : nodes[i].kind = kind
    THEN CHOOSE i \in DOMAIN nodes :
             nodes[i].kind = kind /\ \A j \in 1..(i - 1) : nodes[j].kind # kind
    ELSE 0

RemoveAt(seq, i) == SubSeq(seq, 1, i - 1) \o SubSeq(seq, i + 1, Len(seq))

\* the loop of the Send clause over send->args when no argument is a splat;
\* st = [args, block, w, uc]
SendArgsLoop(nodes, st) ==
    IF nodes = <<>> \/ st.w.exc THEN st
    ELSE LET stat == Head(nodes)
         IN IF stat.kind = "BlockPass"
            THEN IF st.block.kind # "null"
                 THEN [st EXCEPT !.w = Exception_raise(@)]
                 ELSE Then([st EXCEPT !.block = stat.kids[1]], LAMBDA st1 :
                          SendArgsLoop(Tail(nodes), st1))
            ELSE Then(node2TreeImpl(stat, st.w, st.uc), LAMBDA r :
                 Then([st EXCEPT !.args = Append(@, r.tree), !.w = r.w, !.uc = r.uc],
                      LAMBDA st1 : SendArgsLoop(Tail(nodes), st1)))

\* the Send clause leaving the block-pass among the arguments of a splat call
SendClause_blockPassKept(send, w, uc) ==
    Then(node2TreeImpl(Receiver(send), w, uc), LAMBDA r0 :
        LET bare == isa_tree(r0.tree, "EmptyTree")
            rec == IF bare THEN MK_Self ELSE r0.tree
            flags == IF bare THEN {"PRIVATE_OK"} ELSE {}
        IN IF \E i \in DOMAIN CallArgs(send) : CallArgs(send)[i].kind = "Splat"
           THEN LET it == IndexOfKind(CallArgs(send), "BlockPass")
                    block == IF it # 0 THEN CallArgs(send)[it].kids[1] ELSE Null
                    argnodes == IF it # 0
                                THEN [CallArgs(send) EXCEPT ![it] = CallArgs(send)[it].kids[1]]
                                ELSE CallArgs(send)
                    array == PAt("Array", noName, argnodes, send.loc)
                    method == MK_Symbol(send.name)
                IN Then(node2TreeImpl(array, r0.w, r0.uc), LAMBDA ra :
                   Then(node2Proc(block, ra.w, ra.uc), LAMBDA rp :
                       R(MK_Send(MK_Constant("Magic"), Names_callWithSplat,
                                 <<rec, method, ra.tree>>, {}, rp.block),
                         rp.w, rp.uc)))
           ELSE Then(SendArgsLoop(CallArgs(send),
                                  [args |-> <<>>, block |-> Null, w |-> r0.w, uc |-> r0.uc]),
                     LAMBDA st :
                Then(node2Proc(st.block, st.w, st.uc), LAMBDA rp :
                    R(MK_Send(rec, send.name, st.args, flags, rp.block), rp.w, rp.uc))))

SendClause(send, w, uc) ==
    Then(node2TreeImpl(Receiver(send), w, uc), LAMBDA r0 :
        LET bare == isa_tree(r0.tree, "EmptyTree")
            rec == IF bare THEN MK_Self ELSE r0.tree
            flags == IF bare THEN {"PRIVATE_OK"} ELSE {}
        IN IF \E i \in DOMAIN CallArgs(send) : CallArgs(send)[i].kind = "Splat"
           THEN LET it == IndexOfKind(CallArgs(send), "BlockPass")
                    block == IF it # 0 THEN CallArgs(send)[it].kids[1] ELSE Null
                    argnodes == IF it # 0 THEN RemoveAt(CallArgs(send), it) ELSE CallArgs(send)
                    array == PAt("Array", noName, argnodes, send.loc)
                    method == MK_Symbol(send.name)
                IN Then(node2TreeImpl(array, r0.w, r0.uc), LAMBDA ra :
                   Then(node2Proc(block, ra.w, ra.uc), LAMBDA rp :
                       R(MK_Send(MK_Constant("Magic"), Names_callWithSplat,
                                 <<rec, method, ra.tree>>, {}, rp.block),
                         rp.w, rp.uc)))
           ELSE Then(SendArgsLoop(CallArgs(send),
                                  [args |-> <<>>, block |-> Null, w |-> r0.w, uc |-> r0.uc]),
                     LAMBDA st :
                Then(node2Proc(st.block, st.w, st.uc), LAMBDA rp :
                    R(MK_Send(rec, send.name, st.args, flags, rp.block), rp.w, rp.uc))))

\* the And clause without the temporary
AndClause_noTemp(and_, w, uc) ==
    Then(node2TreeImpl(and_.kids[1], w, uc), LAMBDA rl :
    Then(node2TreeImpl(and_.kids[2], rl.w, rl.uc), LAMBDA rr :
        R(MK_If(rl.tree, rr.tree, rl.tree), rr.w, rr.uc)))

\* parser::And: kids = <<left, right>>
AndClause(and_, w, uc) ==
    Then(node2TreeImpl(and_.kids[1], w, uc), LAMBDA rl :
        IF isa_reference(rl.tree)
        THEN Then(node2TreeImpl(and_.kids[2], rl.w, rl.uc), LAMBDA rr :
                 R(MK_If(MK_cpRef(rl.tree), rr.tree, rl.tree), rr.w, rr.uc))
        ELSE Then(freshNameUnique(rl.w, rl.uc, Names_andAnd), LAMBDA m :
             Then(node2TreeImpl(and_.kids[2], m.w, m.uc), LAMBDA rr :
                 LET tempName == m.name
                     temp == MK_AssignName(tempName, rl.tree)
                     iff == MK_If(MK_Local(tempName), rr.tree, MK_Local(tempName))
                 IN R(MK_InsSeq1(temp, iff), rr.w, rr.uc))))

\* parser::Or: kids = <<left, right>>
OrClause(or_, w, uc) ==
    Then(node2TreeImpl(or_.kids[1], w, uc), LAMBDA rl :
        IF isa_reference(rl.tree)
        THEN Then(node2TreeImpl(or_.kids[2], rl.w, rl.uc), LAMBDA rr :
                 R(MK_If(MK_cpRef(rl.tree), rl.tree, rr.tree), rr.w, rr.uc))
        ELSE Then(freshNameUnique(rl.w, rl.uc, Names_orOr), LAMBDA m :
             Then(node2TreeImpl(or_.kids[2], m.w, m.uc), LAMBDA rr :
                 LET tempName == m.name
                     temp == MK_AssignName(tempName, rl.tree)
                     iff == MK_If(MK_Local(tempName), MK_Local(tempName), rr.tree)
                 IN R(MK_InsSeq1(temp, iff), rr.w, rr.uc))))

\* the loop of the compound assignments over s->args; st = [stats, temps, w, uc]
AsgnArgsLoop(args, fun, st) ==
    IF args = <<>> THEN st
    ELSE Then(freshNameUnique(st.w, st.uc, fun), LAMBDA m :
         Then([stats |-> Append(st.stats, MK_AssignName(m.name, Head(args))),
               temps |-> Append(st.temps, MK_Local(m.name)),
               w |-> m.w, uc |-> m.uc], LAMBDA st1 :
             AsgnArgsLoop(Tail(args), fun, st1)))

\* the common start of the compound assignments to a send s: a temporary for
\* the receiver, then one for each argument
AsgnSendTemps(s, w, uc) ==
    Then(freshNameUnique(w, uc, s.name), LAMBDA m :
    Then(AsgnArgsLoop(SendArgs(s), s.name,
                      [stats |-> <<MK_AssignName(m.name, SendRecv(s))>>, temps |-> <<>>,
                       w |-> m.w, uc |-> m.uc]), LAMBDA st :
        [tempRecv |-> m.name, stats |-> st.stats, temps |-> st.temps, w |-> st.w, uc |-> st.uc]))

\* a constant on the left treated like a left side that is not implemented
AsgnOther_raising(recv, loc, w, uc) == R(MK_EmptyTree, Exception_raise(w), uc)

\* the last branches of the compound assignments: a constant, anything else
AsgnOther(recv, loc, w, uc) ==
    IF isa_tree(recv, "UnresolvedConstant")
    THEN R(MK_EmptyTree, beginError(w, loc, "NoConstantReassignment"), uc)
    ELSE R(MK_EmptyTree, Exception_raise(w), uc)

\* parser::AndAsgn: kids = <<left, right>>
AndAsgnClause(andAsgn, w, uc) ==
    Then(node2TreeImpl(andAsgn.kids[1], w, uc), LAMBDA rl :
    Then(node2TreeImpl(andAsgn.kids[2], rl.w, rl.uc), LAMBDA ra :
        LET recv == rl.tree
            arg == ra.tree
        IN IF ra.w.exc THEN R(MK_EmptyTree, ra.w, ra.uc)
           ELSE IF isa_tree(recv, "Send")
           THEN Then(AsgnSendTemps(recv, ra.w, ra.uc), LAMBDA p :
                Then(freshNameUnique(p.w, p.uc, recv.name), LAMBDA m :
                    LET cond == MK_Send(MK_Local(p.tempRecv), recv.name, p.temps, recv.flags, <<>>)
                        body == MK_Send(MK_Local(p.tempRecv), addEq(recv.name),
                                        Append(p.temps, arg), recv.flags, <<>>)
                        iff == MK_If(MK_Local(m.name), body, MK_Local(m.name))
                    IN R(MK_InsSeq(Append(p.stats, MK_AssignName(m.name, cond)), iff),
                         m.w, m.uc)))
           ELSE IF isa_reference(recv)
           THEN R(MK_If(MK_cpRef(recv), MK_Assign(recv, arg), MK_cpRef(recv)), ra.w, ra.uc)
           ELSE AsgnOther(recv, andAsgn.loc, ra.w, ra.uc)))

\* parser::OrAsgn: kids = <<left, right>>
OrAsgnClause(orAsgn, w, uc) ==
    Then(node2TreeImpl(orAsgn.kids[1], w, uc), LAMBDA rl :
    Then(node2TreeImpl(orAsgn.kids[2], rl.w, rl.uc), LAMBDA ra :
        LET recv == rl.tree
            arg == ra.tree
        IN IF ra.w.exc THEN R(MK_EmptyTree, ra.w, ra.uc)
           ELSE IF isa_tree(recv, "Send")
           THEN Then(AsgnSendTemps(recv, ra.w, ra.uc), LAMBDA p :
                Then(freshNameUnique(p.w, p.uc, recv.name), LAMBDA m :
                    LET cond == MK_Send(MK_Local(p.tempRecv), recv.name, p.temps, recv.flags, <<>>)
                        elsep == MK_Send(MK_Local(p.tempRecv), addEq(recv.name),
                                         Append(p.temps, arg), recv.flags, <<>>)
                        iff == MK_If(MK_Local(m.name), MK_Local(m.name), elsep)
                    IN R(MK_InsSeq(Append(p.stats, MK_AssignName(m.name, cond)), iff),
                         m.w, m.uc)))
           ELSE IF isa_reference(recv)
           THEN R(MK_If(MK_cpRef(recv), MK_cpRef(recv), MK_Assign(recv, arg)), ra.w, ra.uc)
           ELSE AsgnOther(recv, orAsgn.loc, ra.w, ra.uc)))

\* parser::OpAsgn: name = op, kids = <<left, right>>
OpAsgnClause(opAsgn, w, uc) ==
    Then(node2TreeImpl(opAsgn.kids[1], w, uc), LAMBDA rl :
    Then(node2TreeImpl(opAsgn.kids[2], rl.w, rl.uc), LAMBDA rr :
        LET recv == rl.tree
            rhs == rr.tree
        IN IF rr.w.exc THEN R(MK_EmptyTree, rr.w, rr.uc)
           ELSE IF isa_tree(recv, "Send")
           THEN Then(AsgnSendTemps(recv, rr.w, rr.uc), LAMBDA p :
                    LET prevValue == MK_Send(MK_Local(p.tempRecv), recv.name, p.temps,
                                             recv.flags, <<>>)
                        newValue == MK_Send1(prevValue, opAsgn.name, rhs)
                        res == MK_Send(MK_Local(p.tempRecv), addEq(recv.name),
                                       Append(p.temps, newValue), recv.flags, <<>>)
                    IN R(MK_InsSeq(p.stats, res), p.w, p.uc))
           ELSE IF isa_reference(recv)
           THEN R(MK_Assign(MK_cpRef(recv), MK_Send1(recv, opAsgn.name, rhs)), rr.w, rr.uc)
           ELSE AsgnOther(recv, opAsgn.loc, rr.w, rr.uc)))

\* parser::Const, parser::ConstLhs: kids = <<scope>>
ConstClause(const, w, uc) ==
    Then(node2TreeImpl(const.kids[1], w, uc), LAMBDA r :
        R(MK_UnresolvedConstant(r.tree, const.name), r.w, r.uc))

\* parser::Begin, parser::Kwbegin: kids = stmts
BeginClause(begin, w, uc) ==
    IF begin.kids # <<>>
    THEN Then(LowerAll(begin.kids, w, uc), LAMBDA rs :
             R(MK_InsSeq(SubSeq(rs.trees, 1, Len(rs.trees) - 1), rs.trees[Len(rs.trees)]),
               rs.w, rs.uc))
    ELSE R(MK_EmptyTree, w, uc)

\* the CSend clause testing the receiver itself instead of the temporary
CSendClause_retest(csend, w, uc) ==
    Then(freshNameUnique(w, uc, Names_assignTemp), LAMBDA m :
    Then(node2TreeImpl(Receiver(csend), m.w, m.uc), LAMBDA r :
        LET tempRecv == m.name
            sendNode == PAt("Send", csend.name,
                            <<PAt("LVar", tempRecv, <<>>, Receiver(csend).loc)>>
                                \o CallArgs(csend),
                            csend.loc)
        IN Then(node2TreeImpl(sendNode, r.w, r.uc), LAMBDA rs :
               R(MK_InsSeq1(MK_AssignName(tempRecv, r.tree),
                            MK_If(MK_Send0(r.tree, Names_nil_p), MK_Nil, rs.tree)),
                 rs.w, rs.uc))))

CSendClause(csend, w, uc) ==
    Then(freshNameUnique(w, uc, Names_assignTemp), LAMBDA m :
    Then(node2TreeImpl(Receiver(csend), m.w, m.uc), LAMBDA r :
        LET tempRecv == m.name
            recvLoc == Receiver(csend).loc
            assgn == MK_AssignName(tempRecv, r.tree)
            cond == MK_Send0(MK_Local(tempRecv), Names_nil_p)
            sendNode == PAt("Send", csend.name,
                            <<PAt("LVar", tempRecv, <<>>, recvLoc)>> \o CallArgs(csend),
                            csend.loc)
        IN Then(node2TreeImpl(sendNode, r.w, r.uc), LAMBDA rs :
               R(MK_InsSeq1(assgn, MK_If(cond, MK_Nil, rs.tree)), rs.w, rs.uc))))

\* the Module clause leaving the name out
ModuleClause_unnamed(module, w, uc) ==
    Then(scopeNodeToBody(module.kids[2], w), LAMBDA b :
    Then(node2TreeImpl(module.kids[1], b.w, uc), LAMBDA rn :
        R(MK_ClassDef("todo", MK_EmptyTree, <<>>, b.body, "Module"), rn.w, rn.uc)))

\* parser::Module: kids = <<name, body>>
ModuleClause(module, w, uc) ==
    Then(scopeNodeToBody(module.kids[2], w), LAMBDA b :
    Then(node2TreeImpl(module.kids[1], b.w, uc), LAMBDA rn :
        LET ancestors == <<>>
        IN R(MK_ClassDef("todo", rn.tree, ancestors, b.body, "Module"), rn.w, rn.uc)))

\* the Class clause without the todo placeholder
ClassClause_noPlaceholder(claz, w, uc) ==
    Then(scopeNodeToBody(claz.kids[3], w), LAMBDA b :
    Then(IF claz.kids[2].kind = "null"
         THEN R(MK_EmptyTree, b.w, uc)
         ELSE node2TreeImpl(claz.kids[2], b.w, uc), LAMBDA ra :
    Then(node2TreeImpl(claz.kids[1], ra.w, ra.uc), LAMBDA rn :
        LET ancestors == IF claz.kids[2].kind = "null" THEN <<>> ELSE <<ra.tree>>
        IN R(MK_ClassDef("todo", rn.tree, ancestors, b.body, "Class"), rn.w, rn.uc))))

\* parser::Class: kids = <<name, superclass, body>>
ClassClause(claz, w, uc) ==
    Then(scopeNodeToBody(claz.kids[3], w), LAMBDA b :
    Then(IF claz.kids[2].kind = "null"
         THEN R(MK_Constant("todo"), b.w, uc)
         ELSE node2TreeImpl(claz.kids[2], b.w, uc), LAMBDA ra :
    Then(node2TreeImpl(claz.kids[1], ra.w, ra.uc), LAMBDA rn :
        LET ancestors == <<ra.tree>>
        IN R(MK_ClassDef("todo", rn.tree, ancestors, b.body, "Class"), rn.w, rn.uc))))

\* parser::DefMethod: kids = <<args, body>>, name = the method's name
DefMethodClause(method, w, uc) ==
    LET uniqueCounter1 == Counter("DefMethod", method.loc)
    IN Then(buildMethod(method.loc, method.name, method.kids[1], method.kids[2], w,
                        uniqueCounter1), LAMBDA r :
           R(r.tree, r.w, uc))

\* the DefS clause building the method after reporting the receiver
DefSClause_lowering(method, w, uc) ==
    LET uniqueCounter1 == Counter("DefS", method.loc)
        w1 == IF method.kids[1].kind # "Self"
              THEN beginError(w, method.kids[1].loc, "InvalidSingletonDef") ELSE w
    IN Then(buildMethod(method.loc, method.name, method.kids[2], method.kids[3], w1,
                        uniqueCounter1), LAMBDA r :
           R(IF method.kids[1].kind # "Self" THEN MK_EmptyTree
             ELSE [r.tree EXCEPT !.flags = @ \cup {"SelfMethod"}], r.w, uc))

\* parser::DefS: kids = <<singleton, args, body>>
DefSClause(method, w, uc) ==
    IF method.kids[1].kind # "Self"
    THEN R(MK_EmptyTree, beginError(w, method.kids[1].loc, "InvalidSingletonDef"), uc)
    ELSE LET uniqueCounter1 == Counter("DefS", method.loc)
         IN Then(buildMethod(method.loc, method.name, method.kids[2], method.kids[3], w,
                             uniqueCounter1), LAMBDA r :
                R([r.tree EXCEPT !.flags = @ \cup {"SelfMethod"}], r.w, uc))

\* parser::SClass: kids = <<expr, body>>
SClassClause(sclass, w, uc) ==
    IF sclass.kids[1].kind # "Self"
    THEN R(MK_EmptyTree, beginError(w, sclass.kids[1].loc, "InvalidSingletonDef"), uc)
    ELSE Then(scopeNodeToBody(sclass.kids[2], w), LAMBDA b :
             LET emptyAncestors == <<>>
             IN R(MK_ClassDef("todo", MK_UnresolvedIdent("Class", Names_singleton),
                              emptyAncestors, b.body, "Class"),
                  b.w, uc))

\* the Block clause leaving the block beside its call
BlockClause_freeStanding(block, w, uc) ==
    Then(node2TreeImpl(block.kids[1], w, uc), LAMBDA r :
    Then(desugarArgsAndBody(block.loc, block.kids[2], block.kids[3], r.w, r.uc), LAMBDA ab :
        R(MK_InsSeq1(r.tree, MK_Block(ab.args, ab.body)), ab.w, ab.uc)))

\* parser::Block: kids = <<send, args, body>>
BlockClause(block, w, uc) ==
    Then(node2TreeImpl(block.kids[1], w, uc), LAMBDA r :
        LET recv == r.tree
            direct == isa_tree(recv, "Send")
            \* the ENFORCEs of the csend path
            found == \/ direct
                     \/ /\ isa_tree(recv, "InsSeq")
                        /\ isa_tree(InsSeqExpr(recv), "If")
                        /\ isa_tree(InsSeqExpr(recv).kids[3], "Send")
        IN IF r.w.exc THEN r
           ELSE IF ~found THEN R(MK_EmptyTree, Exception_raise(r.w), r.uc)
           ELSE Then(desugarArgsAndBody(block.loc, block.kids[2], block.kids[3], r.w, r.uc),
                     LAMBDA ab :
                LET blk == MK_Block(ab.args, ab.body)
                    res == IF direct THEN [recv EXCEPT !.block = <<blk>>]
                           ELSE [recv EXCEPT !.kids[Len(recv.kids)].kids[3].block = <<blk>>]
                IN R(res, ab.w, ab.uc)))

\* parser::While: kids = <<cond, body>>
WhileClause(wl, w, uc) ==
    Then(node2TreeImpl(wl.kids[1], w, uc), LAMBDA rc :
    Then(node2TreeImpl(wl.kids[2], rc.w, rc.uc), LAMBDA rb :
        R(MK_While(rc.tree, rb.tree), rb.w, rb.uc)))

\* the WhilePost clause taking every body for an ordinary one
WhilePostClause_plain(wl, w, uc) ==
    Then(node2TreeImpl(wl.kids[2], w, uc), LAMBDA rb :
    Then(node2TreeImpl(wl.kids[1], rb.w, rb.uc), LAMBDA rc :
        R(MK_While(rc.tree, rb.tree), rc.w, rc.uc)))

\* parser::WhilePost: kids = <<cond, body>>; the body is lowered first
WhilePostClause(wl, w, uc) ==
    LET isDoWhile == wl.kids[2].kind = "Kwbegin"
    IN Then(node2TreeImpl(wl.kids[2], w, uc), LAMBDA rb :
       Then(node2TreeImpl(wl.kids[1], rb.w, rb.uc), LAMBDA rc :
           IF isDoWhile
           THEN Then(freshNameUnique(rc.w, rc.uc, Names_forTemp), LAMBDA m :
                    LET cond == MK_Send0(rc.tree, Names_bang)
                        temp == m.name
                        withResult == MK_AssignName(temp, rb.tree)
                        breaker == MK_If(cond, MK_Break(MK_Local(temp)), MK_EmptyTree)
                        breakWithResult == MK_InsSeq1(withResult, breaker)
                    IN R(MK_While(MK_True, breakWithResult), m.w, m.uc))
           ELSE R(MK_While(rc.tree, rb.tree), rc.w, rc.uc)))

\* parser::UntilPost: kids = <<cond, body>>; the body is lowered first
UntilPostClause(wl, w, uc) ==
    LET isDoUntil == wl.kids[2].kind = "Kwbegin"
    IN Then(node2TreeImpl(wl.kids[2], w, uc), LAMBDA rb :
       Then(node2TreeImpl(wl.kids[1], rb.w, rb.uc), LAMBDA rc :
           IF isDoUntil
           THEN Then(freshNameUnique(rc.w, rc.uc, Names_forTemp), LAMBDA m :
                    LET cond == rc.tree
                        temp == m.name
                        withResult == MK_AssignName(temp, rb.tree)
                        breaker == MK_If(cond, MK_Break(MK_Local(temp)), MK_EmptyTree)
                        breakWithResult == MK_InsSeq1(withResult, breaker)
                    IN R(MK_While(MK_True, breakWithResult), m.w, m.uc))
           ELSE R(MK_While(MK_Send0(rc.tree, Names_bang), rb.tree), rc.w, rc.uc)))

\* parser::Until: kids = <<cond, body>>
UntilClause(wl, w, uc) ==
    Then(node2TreeImpl(wl.kids[1], w, uc), LAMBDA rc :
    Then(node2TreeImpl(wl.kids[2], rc.w, rc.uc), LAMBDA rb :
        LET cond == MK_Send0(rc.tree, Names_bang)
        IN R(MK_While(cond, rb.tree), rb.w, rb.uc)))

\* parser::Assign: kids = <<lhs, rhs>>
AssignClause(asgn, w, uc) ==
    Then(node2TreeImpl(asgn.kids[1], w, uc), LAMBDA rl :
    Then(node2TreeImpl(asgn.kids[2], rl.w, rl.uc), LAMBDA rr :
        R(MK_Assign(rl.tree, rr.tree), rr.w, rr.uc)))

\* parser::Super: kids = args
SuperClause(super, w, uc) ==
    LET send == PAt("Send", Names_super, <<Null>> \o super.kids, super.loc)
    IN node2TreeImpl(send, w, uc)

ZSuperClause(zuper, w, uc) ==
    R(MK_Send1(MK_Self, Names_super, MK_ZSuperArgs), w, uc)

\* the For clause handing a single target to Masgn as it is
ForClause_noWrap(for_, w, uc) ==
    Then(freshNameUnique(w, uc, Names_forTemp), LAMBDA m :
        LET temp == m.name
            loc == for_.loc
            masgn == PAt("Masgn", noName, <<for_.kids[1], PAt("LVar", temp, <<>>, loc)>>, loc)
        IN Then(node2TreeImpl(masgn, m.w, m.uc), LAMBDA rm :
           Then(node2TreeImpl(for_.kids[3], rm.w, rm.uc), LAMBDA rb :
           Then(node2TreeImpl(for_.kids[2], rb.w, rb.uc), LAMBDA re :
               LET body == MK_InsSeq(<<rm.tree>>, rb.tree)
                   blockArgs == <<MK_RestArg(MK_Local(temp))>>
                   block == MK_Block(blockArgs, body)
               IN R(MK_Send(re.tree, Names_each, <<>>, {}, <<block>>), re.w, re.uc)))))

\* parser::For: kids = <<vars, expr, body>>
ForClause(for_, w, uc) ==
    Then(freshNameUnique(w, uc, Names_forTemp), LAMBDA m :
        LET temp == m.name
            loc == for_.loc
            mlhsNode == IF for_.kids[1].kind = "Mlhs" THEN for_.kids[1]
                        ELSE PAt("Mlhs", noName, <<for_.kids[1]>>, loc)
            masgn == PAt("Masgn", noName, <<mlhsNode, PAt("LVar", temp, <<>>, loc)>>, loc)
        IN Then(node2TreeImpl(masgn, m.w, m.uc), LAMBDA rm :
           Then(node2TreeImpl(for_.kids[3], rm.w, rm.uc), LAMBDA rb :
           Then(node2TreeImpl(for_.kids[2], rb.w, rb.uc), LAMBDA re :
               LET body == MK_InsSeq(<<rm.tree>>, rb.tree)
                   blockArgs == <<MK_RestArg(MK_Local(temp))>>
                   block == MK_Block(blockArgs, body)
               IN R(MK_Send(re.tree, Names_each, <<>>, {}, <<block>>), re.w, re.uc)))))

\* the loop of the Array clause over array->elts; st = [elems, lastMerge, w, uc],
\* lastMerge = <<>> for nullptr
ArrayLoop(elts, st) ==
    IF elts = <<>> THEN st
    ELSE LET stat == Head(elts)
         IN IF stat.kind = "Splat"
            THEN Then(node2TreeImpl(stat.kids[1], st.w, st.uc), LAMBDA r :
                 LET var == MK_Send0(r.tree, Names_to_a)
                     current == MK_Array(st.elems)
                     merged == IF st.elems = <<>>
                               THEN IF st.lastMerge # <<>>
                                    THEN MK_Send1(st.lastMerge[1], Names_concat, var)
                                    ELSE var
                               ELSE MK_Send1(IF st.lastMerge # <<>>
                                             THEN MK_Send1(st.lastMerge[1], Names_concat, current)
                                             ELSE current,
                                             Names_concat, var)
                 IN Then([elems |-> <<>>, lastMerge |-> <<merged>>, w |-> r.w, uc |-> r.uc],
                         LAMBDA st1 : ArrayLoop(Tail(elts), st1)))
            ELSE Then(node2TreeImpl(stat, st.w, st.uc), LAMBDA r :
                 Then([st EXCEPT !.elems = Append(@, r.tree), !.w = r.w, !.uc = r.uc],
                      LAMBDA st1 : ArrayLoop(Tail(elts), st1)))

\* the Array clause forgetting the elements after the last splat
ArrayClause_tailDropped(array, w, uc) ==
    Then(ArrayLoop(array.kids, [elems |-> <<>>, lastMerge |-> <<>>, w |-> w, uc |-> uc]),
         LAMBDA st :
        LET res == IF st.lastMerge # <<>> THEN st.lastMerge[1] ELSE MK_Array(st.elems)
        IN R(res, st.w, st.uc))

\* parser::Array: kids = elts
ArrayClause(array, w, uc) ==
    Then(ArrayLoop(array.kids, [elems |-> <<>>, lastMerge |-> <<>>, w |-> w, uc |-> uc]),
         LAMBDA st :
        LET res == IF st.elems = <<>>
                   THEN IF st.lastMerge # <<>> THEN st.lastMerge[1] ELSE MK_Array(st.elems)
                   ELSE IF st.lastMerge # <<>>
                        THEN MK_Send1(st.lastMerge[1], Names_concat, MK_Array(st.elems))
                        ELSE MK_Array(st.elems)
        IN R(res, st.w, st.uc))

\* the loop of the Hash clause over hash->pairs;
\* st = [keys, values, lastMerge, w, uc], lastMerge = <<>> for nullptr
HashLoop(pairs, st) ==
    IF pairs = <<>> \/ st.w.exc THEN st
    ELSE LET pair == Head(pairs)
         IN IF pair.kind = "Pair"
            THEN Then(node2TreeImpl(pair.kids[1], st.w, st.uc), LAMBDA rk :
                 Then(node2TreeImpl(pair.kids[2], rk.w, rk.uc), LAMBDA rv :
                 Then([st EXCEPT !.keys = Append(@, rk.tree), !.values = Append(@, rv.tree),
                                 !.w = rv.w, !.uc = rv.uc],
                      LAMBDA st1 : HashLoop(Tail(pairs), st1))))
            ELSE IF pair.kind # "Kwsplat" THEN [st EXCEPT !.w = Exception_raise(@)]
            ELSE Then(node2TreeImpl(pair.kids[1], st.w, st.uc), LAMBDA r :
                 LET expr == MK_Send0(r.tree, Names_to_hash)
                     current == MK_Hash(st.keys, st.values)
                     merged == IF st.keys = <<>>
                               THEN IF st.lastMerge # <<>>
                                    THEN MK_Send1(st.lastMerge[1], Names_merge, expr)
                                    ELSE expr
                               ELSE MK_Send1(IF st.lastMerge # <<>>
                                             THEN MK_Send1(st.lastMerge[1], Names_merge, current)
                                             ELSE current,
                                             Names_merge, expr)
                 IN Then([keys |-> <<>>, values |-> <<>>, lastMerge |-> <<merged>>,
                          w |-> r.w, uc |-> r.uc],
                         LAMBDA st1 : HashLoop(Tail(pairs), st1)))

\* parser::Hash: kids = pairs
HashClause(hash, w, uc) ==
    Then(HashLoop(hash.kids, [keys |-> <<>>, values |-> <<>>, lastMerge |-> <<>>,
                              w |-> w, uc |-> uc]), LAMBDA st :
        LET res == IF st.keys = <<>>
                   THEN IF st.lastMerge # <<>> THEN st.lastMerge[1]
                        ELSE MK_Hash(st.keys, st.values)
                   ELSE IF st.lastMerge # <<>>
                        THEN MK_Send1(st.lastMerge[1], Names_merge, MK_Hash(st.keys, st.values))
                        ELSE MK_Hash(st.keys, st.values)
        IN R(res, st.w, st.uc))

\* the loop of the Case clause over when->patterns; st = [cond, w, uc],
\* cond = <<>> for nullptr
CasePatternsLoop(patterns, temp, hasTemp, st) ==
    IF patterns = <<>> THEN st
    ELSE Then(node2TreeImpl(Head(patterns), st.w, st.uc), LAMBDA r :
         LET ctree == r.tree
             test == IF hasTemp THEN MK_Send1(ctree, Names_tripleEq, MK_Local(temp))
                     ELSE ctree
             cond == IF st.cond = <<>> THEN test ELSE MK_If(test, MK_True, st.cond[1])
         IN Then([cond |-> <<cond>>, w |-> r.w, uc |-> r.uc], LAMBDA st1 :
                CasePatternsLoop(Tail(patterns), temp, hasTemp, st1)))

\* parser::When: kids = <<body>> \o patterns
WhenBody(when) == when.kids[1]
WhenPatterns(when) == Tail(when.kids)

\* the loop of the Case clause over case_->whens from rbegin to rend, given
\* here the whens still to visit in source order; st = [res, w, uc]
CaseWhensLoop(whens, temp, hasTemp, st) ==
    IF whens = <<>> \/ st.w.exc THEN st
    ELSE LET when == whens[Len(whens)]
         IN IF when.kind # "When"
            THEN [st EXCEPT !.w = Exception_raise(@)]
            ELSE Then(CasePatternsLoop(WhenPatterns(when), temp, hasTemp,
                                       [cond |-> <<>>, w |-> st.w, uc |-> st.uc]), LAMBDA p :
                 Then(node2TreeImpl(WhenBody(when), p.w, p.uc), LAMBDA rb :
                 Then([res |-> MK_If(p.cond[1], rb.tree, st.res), w |-> rb.w, uc |-> rb.uc],
                      LAMBDA st1 :
                     CaseWhensLoop(SubSeq(whens, 1, Len(whens) - 1), temp, hasTemp, st1))))

\* parser::Case: kids = <<condition, else_>> \o whens
CaseCondition(case_) == case_.kids[1]
CaseElse(case_) == case_.kids[2]
CaseWhens(case_) == SubSeq(case_.kids, 3, Len(case_.kids))

CaseClause(case_, w, uc) ==
    LET hasTemp == CaseCondition(case_).kind # "null"
    IN Then(IF hasTemp THEN freshNameUnique(w, uc, Names_assignTemp)
            ELSE [name |-> noName, w |-> w, uc |-> uc], LAMBDA m :
       Then(node2TreeImpl(CaseCondition(case_), m.w, m.uc), LAMBDA rc :
       Then(node2TreeImpl(CaseElse(case_), rc.w, rc.uc), LAMBDA re :
       Then(CaseWhensLoop(CaseWhens(case_), m.name, hasTemp,
                          [res |-> re.tree, w |-> re.w, uc |-> re.uc]), LAMBDA st :
           R(IF hasTemp THEN MK_InsSeq1(MK_AssignName(m.name, rc.tree), st.res) ELSE st.res,
             st.w, st.uc)))))

\* the characters of the literal texts the model lowers
Chars(text) ==
    CASE text = "0" -> <<"0">>
      [] text = "42" -> <<"4", "2">>
      [] text = "007" -> <<"0", "0", "7">>
      [] text = "1_000" -> <<"1", "_", "0", "0", "0">>
      [] text = "9223372036854775808"
            -> <<"9", "2", "2", "3", "3", "7", "2", "0", "3", "6", "8", "5", "4", "7", "7", "5",
                 "8", "0", "8">>
      [] text = "99999999999999999999" -> [i \in 1..20 |-> "9"]
      [] text = "" -> <<>>
      [] text = "i" -> <<"i">>
      [] text = "mxu" -> <<"m", "x", "u">>

DigitChars == <<"0", "1", "2", "3", "4", "5", "6", "7", "8", "9">>
isdigit(c) == \E i \in 1..10 : DigitChars[i] = c
DigitVal(c) == (CHOOSE i \in 1..10 : DigitChars[i] = c) - 1

\* LONG_MAX = 2^63 - 1 and -LONG_MIN = 2^63 in decimal
LongMaxDigits ==
    <<"9", "2", "2", "3", "3", "7", "2", "0", "3", "6", "8", "5", "4", "7", "7", "5", "8", "0", "7">>
LongMinDigits == [LongMaxDigits EXCEPT ![19] = "8"]

\* the longest prefix of s made of digits
RECURSIVE DigitPrefix(_)
DigitPrefix(s) ==
    IF s = <<>> \/ ~isdigit(Head(s)) THEN <<>> ELSE <<Head(s)>> \o DigitPrefix(Tail(s))

RECURSIVE StripZeros(_)
StripZeros(s) == IF s # <<>> /\ Head(s) = "0" THEN StripZeros(Tail(s)) ELSE s

\* a > b for decimal numbers without leading zeros
DigitsGreater(a, b) ==
    \/ Len(a) > Len(b)
    \/ /\ Len(a) = Len(b)
       /\ \E i \in DOMAIN a :
             /\ DigitVal(a[i]) > DigitVal(b[i])
             /\ \A j \in 1..(i - 1) : a[j] = b[j]

RECURSIVE DigitsValue(_, _)
DigitsValue(s, acc) ==
    IF s = <<>> THEN acc ELSE DigitsValue(Tail(s), 10 * acc + DigitVal(Head(s)))

\* std::stol(str) with base 10: an optional sign, then the longest run of
\* digits; what follows the digits is ignored.  No digits: invalid_argument;
\* a value outside long: out_of_range.
stol(text) ==
    LET s == Chars(text)
        neg == s # <<>> /\ Head(s) = "-"
        unsigned == IF s # <<>> /\ Head(s) \in {"+", "-"} THEN Tail(s) ELSE s
        digits == DigitPrefix(unsigned)
        mag == StripZeros(digits)
    IN IF digits = <<>> THEN [thrown |-> "invalid_argument", val |-> 0]
       ELSE IF DigitsGreater(mag, IF neg THEN LongMinDigits ELSE LongMaxDigits)
       THEN [thrown |-> "out_of_range", val |-> 0]
       ELSE [thrown |-> "none",
             val |-> IF neg THEN -DigitsValue(mag, 0) ELSE DigitsValue(mag, 0)]

\* parser::Integer: name = the literal's text
IntegerClause(integer, loc, w, uc) ==
    LET r == stol(integer.name.base)
    IN IF r.thrown = "none" THEN R(MK_Int(r.val), w, uc)
       ELSE R(MK_Int(0), beginError(w, loc, "IntegerOutOfRange"), uc)

\* a unique_ptr that has been moved from holds nullptr
nullptr == T("nullptr", noName, {}, <<>>, <<>>, 0)

\* isStringLit: cast_tree<Literal> of nullptr is nullptr
isStringLit(expr) == isa_tree(expr, "String")

\* the loop of desugarDString over the pieces after the first; first is the
\* variable of that name as the loop finds it; st = [res, w, uc]
DStringLoop(nodes, first, st) ==
    IF nodes = <<>> \/ st.w.exc THEN st
    ELSE Then(node2TreeImpl(Head(nodes), st.w, st.uc), LAMBDA r :
         LET narg == IF ~isStringLit(first) THEN MK_Send0(r.tree, Names_to_s) ELSE r.tree
         IN Then([res |-> MK_Send1(st.res, Names_concat, narg), w |-> r.w, uc |-> r.uc],
                 LAMBDA st1 : DStringLoop(Tail(nodes), first, st1)))

desugarDString(nodes, w, uc) ==
    IF nodes = <<>> THEN R(MK_String(Names_empty), w, uc)
    ELSE Then(node2TreeImpl(Head(nodes), w, uc), LAMBDA r :
         LET first == r.tree
             \* either branch moves from first
             res == IF isStringLit(first) THEN first ELSE MK_Send0(first, Names_to_s)
         IN Then(DStringLoop(Tail(nodes), nullptr, [res |-> res, w |-> r.w, uc |-> r.uc]),
                 LAMBDA st : R(st.res, st.w, st.uc)))

\* the loop of the DSymbol clause over the pieces after the first
DSymbolLoop(nodes, st) ==
    IF nodes = <<>> \/ st.w.exc THEN st
    ELSE Then(node2TreeImpl(Head(nodes), st.w, st.uc), LAMBDA r :
         LET narg == IF ~isStringLit(r.tree) THEN MK_Send0(r.tree, Names_to_s) ELSE r.tree
         IN Then([res |-> MK_Send1(st.res, Names_concat, narg), w |-> r.w, uc |-> r.uc],
                 LAMBDA st1 : DSymbolLoop(Tail(nodes), st1)))

\* parser::DSymbol: kids = nodes
DSymbolClause(dsymbol, w, uc) ==
    IF dsymbol.kids = <<>> THEN R(MK_Symbol(Names_empty), w, uc)
    ELSE Then(node2TreeImpl(Head(dsymbol.kids), w, uc), LAMBDA r :
         LET first == r.tree
             res == IF isStringLit(first) THEN first ELSE MK_Send0(first, Names_to_s)
         IN Then(DSymbolLoop(Tail(dsymbol.kids), [res |-> res, w |-> r.w, uc |-> r.uc]),
                 LAMBDA st : R(MK_Send0(st.res, Names_intern), st.w, st.uc)))

\* parser::DString: kids = nodes
DStringClause(dstring, w, uc) == desugarDString(dstring.kids, w, uc)

\* parser::XString: kids = nodes
XStringClause(xstring, w, uc) ==
    Then(desugarDString(xstring.kids, w, uc), LAMBDA r :
        R(MK_Send1(MK_Self, Names_backtick, r.tree), r.w, r.uc))

\* the loop of the Regopt clause over regopt->opts
RegoptLoop(opts, acc) ==
    IF opts = <<>> THEN acc
    ELSE LET chr == Head(opts)
             flag == CASE chr = "i" -> 1 [] chr = "x" -> 2 [] chr = "m" -> 4 [] OTHER -> 0
         IN RegoptLoop(Tail(opts), IF flag # 0 THEN MK_Send1(acc, Names_orOp, MK_Int(flag))
                                   ELSE acc)

\* parser::Regopt: name = opts
RegoptClause(regopt, w, uc) == R(RegoptLoop(Chars(regopt.name.base), MK_Int(0)), w, uc)

\* parser::Regexp: kids = <<opts>> \o regex
RegexpClause(regexpNode, w, uc) ==
    Then(desugarDString(Tail(regexpNode.kids), w, uc), LAMBDA rx :
    Then(node2TreeImpl(Head(regexpNode.kids), rx.w, rx.uc), LAMBDA ro :
        R(MK_Send2(MK_Constant("Regexp"), Names_new, rx.tree, ro.tree), ro.w, ro.uc)))

\* the loop of the Rescue clause over rescue->rescue; st = [cases, w, uc]
RescueCasesLoop(nodes, st) ==
    IF nodes = <<>> \/ st.w.exc THEN st
    ELSE Then(node2TreeImpl(Head(nodes), st.w, st.uc), LAMBDA r :
         IF r.w.exc THEN [st EXCEPT !.w = r.w, !.uc = r.uc]
         ELSE IF ~isa_tree(r.tree, "RescueCase")
         THEN [st EXCEPT !.w = Exception_raise(r.w), !.uc = r.uc]
         ELSE Then([cases |-> Append(st.cases, r.tree), w |-> r.w, uc |-> r.uc], LAMBDA st1 :
                  RescueCasesLoop(Tail(nodes), st1)))

\* parser::Rescue: kids = <<body, else_>> \o rescue
RescueClause(rescue, w, uc) ==
    Then(RescueCasesLoop(SubSeq(rescue.kids, 3, Len(rescue.kids)),
                         [cases |-> <<>>, w |-> w, uc |-> uc]), LAMBDA st :
        IF st.w.rtl
        THEN Then(node2TreeImpl(rescue.kids[2], st.w, st.uc), LAMBDA re :
             Then(node2TreeImpl(rescue.kids[1], re.w, re.uc), LAMBDA rb :
                 R(MK_Rescue(rb.tree, st.cases, re.tree, MK_EmptyTree), rb.w, rb.uc)))
        ELSE Then(node2TreeImpl(rescue.kids[1], st.w, st.uc), LAMBDA rb :
             Then(node2TreeImpl(rescue.kids[2], rb.w, rb.uc), LAMBDA re :
                 R(MK_Rescue(rb.tree, st.cases, re.tree, MK_EmptyTree), re.w, re.uc))))

\* parser::Resbody: kids = <<exception, var, body>>
ResbodyClause(resbody, w, uc) ==
    Then(node2TreeImpl(resbody.kids[1], w, uc), LAMBDA rx :
        LET exceptionsExpr == rx.tree
            bad == \/ ~(exceptionsExpr.kind \in {"EmptyTree", "Array", "Send"})
                   \/ /\ isa_tree(exceptionsExpr, "Send")
                      /\ exceptionsExpr.name \notin {Names_splat, Names_to_a, Names_concat}
            exceptions == IF isa_tree(exceptionsExpr, "EmptyTree") THEN <<>>
                          ELSE IF isa_tree(exceptionsExpr, "Array") THEN exceptionsExpr.kids
                          ELSE <<exceptionsExpr>>
        IN IF rx.w.exc THEN rx
           ELSE IF bad THEN R(MK_EmptyTree, Exception_raise(rx.w), rx.uc)
           ELSE Then(node2TreeImpl(resbody.kids[2], rx.w, rx.uc), LAMBDA rv :
                Then(node2TreeImpl(resbody.kids[3], rv.w, rv.uc), LAMBDA rb :
                Then(IF isa_localIdent(rv.tree)
                     THEN [name |-> rv.tree.name, w |-> rb.w, uc |-> rb.uc]
                     ELSE freshNameUnique(rb.w, rb.uc, Names_rescueTemp), LAMBDA m :
                    LET var == m.name
                        body == IF isa_localIdent(rv.tree) \/ isa_tree(rv.tree, "EmptyTree")
                                THEN rb.tree
                                ELSE MK_InsSeq1(MK_Assign(rv.tree, MK_Local(var)), rb.tree)
                    IN R(MK_RescueCase(exceptions, MK_Local(var), body), m.w, m.uc)))))

\* the Ensure clause wrapping a Rescue instead of filling its ensure slot
EnsureClause_wrapping(ensure, w, uc) ==
    Then(node2TreeImpl(ensure.kids[1], w, uc), LAMBDA rb :
    Then(node2TreeImpl(ensure.kids[2], rb.w, rb.uc), LAMBDA re :
        R(MK_Rescue(rb.tree, <<>>, MK_EmptyTree, re.tree), re.w, re.uc)))

\* parser::Ensure: kids = <<body, ensure>>
EnsureClause(ensure, w, uc) ==
    Then(node2TreeImpl(ensure.kids[1], w, uc), LAMBDA rb :
    Then(node2TreeImpl(ensure.kids[2], rb.w, rb.uc), LAMBDA re :
        IF isa_tree(rb.tree, "Rescue")
        THEN R([rb.tree EXCEPT !.kids[Len(rb.tree.kids)] = re.tree], re.w, re.uc)
        ELSE R(MK_Rescue(rb.tree, <<>>, MK_EmptyTree, re.tree), re.w, re.uc)))

\* parser::If: kids = <<condition, then_, else_>>
IfClause(if_, w, uc) ==
    Then(node2TreeImpl(if_.kids[1], w, uc), LAMBDA rc :
    Then(node2TreeImpl(if_.kids[2], rc.w, rc.uc), LAMBDA rt :
    Then(node2TreeImpl(if_.kids[3], rt.w, rt.uc), LAMBDA re :
        R(MK_If(rc.tree, rt.tree, re.tree), re.w, re.uc))))

\* parser::Masgn: kids = <<lhs, rhs>>
MasgnClause(masgn, w, uc) ==
    IF masgn.kids[1].kind # "Mlhs" THEN R(MK_EmptyTree, Exception_raise(w), uc)
    ELSE Then(node2TreeImpl(masgn.kids[2], w, uc), LAMBDA rr :
             desugarMlhs(masgn.loc, masgn.kids[1], rr.tree, rr.w, rr.uc))

\* parser::Splat: kids = <<var>>
SplatClause(splat, w, uc) ==
    Then(node2TreeImpl(splat.kids[1], w, uc), LAMBDA r :
        R(MK_Splat(r.tree), r.w, r.uc))

\* an unsupported kind treated like an unimplemented one
UnsupportedClause_raising(node, w, uc) == R(MK_EmptyTree, Exception_raise(w), uc)

UnsupportedClause(node, w, uc) ==
    Then(unsupportedNode(node, w), LAMBDA res : R(res.tree, res.w, uc))

\* typecase(what.get(), ...)
typecase(what, w, uc) ==
    CASE what.kind = "Send" -> SendClause(what, w, uc)
      [] what.kind \in {"Const", "ConstLhs"} -> ConstClause(what, w, uc)
      [] what.kind = "String" -> R(MK_String(what.name), w, uc)
      [] what.kind = "Symbol" -> R(MK_Symbol(what.name), w, uc)
      [] what.kind \in {"LVar", "LVarLhs", "Arg"} -> R(MK_Local(what.name), w, uc)
      [] what.kind \in {"Begin", "Kwbegin"} -> BeginClause(what, w, uc)
      [] what.kind = "And" -> AndClause(what, w, uc)
      [] what.kind = "Or" -> OrClause(what, w, uc)
      [] what.kind = "CSend" -> CSendClause(what, w, uc)
      [] what.kind = "Self" -> R(MK_Self, w, uc)
      [] what.kind = "Cbase" -> R(MK_Constant("root"), w, uc)
      [] what.kind = "Module" -> ModuleClause(what, w, uc)
      [] what.kind = "Class" -> ClassClause(what, w, uc)
      [] what.kind = "Restarg" -> R(MK_RestArg(MK_Local(what.name)), w, uc)
      [] what.kind = "DefMethod" -> DefMethodClause(what, w, uc)
      [] what.kind = "DefS" -> DefSClause(what, w, uc)
      [] what.kind = "SClass" -> SClassClause(what, w, uc)
      [] what.kind = "Block" -> BlockClause(what, w, uc)
      [] what.kind = "While" -> WhileClause(what, w, uc)
      [] what.kind = "Until" -> UntilClause(what, w, uc)
      [] what.kind = "WhilePost" -> WhilePostClause(what, w, uc)
      [] what.kind = "UntilPost" -> UntilPostClause(what, w, uc)
      [] what.kind = "Nil" -> R(MK_Nil, w, uc)
      [] what.kind \in {"IVar", "IVarLhs"} -> R(MK_UnresolvedIdent("Instance", what.name), w, uc)
      [] what.kind \in {"GVar", "GVarLhs"} -> R(MK_UnresolvedIdent("Global", what.name), w, uc)
      [] what.kind \in {"CVar", "CVarLhs"} -> R(MK_UnresolvedIdent("Class", what.name), w, uc)
      [] what.kind = "Assign" -> AssignClause(what, w, uc)
      [] what.kind = "Super" -> SuperClause(what, w, uc)
      [] what.kind = "ZSuper" -> ZSuperClause(what, w, uc)
      [] what.kind = "For" -> ForClause(what, w, uc)
      [] what.kind = "Array" -> ArrayClause(what, w, uc)
      [] what.kind = "If" -> IfClause(what, w, uc)
      [] what.kind = "Masgn" -> MasgnClause(what, w, uc)
      [] what.kind = "Case" -> CaseClause(what, w, uc)
      [] what.kind = "Integer" -> IntegerClause(what, what.loc, w, uc)
      [] what.kind = "AndAsgn" -> AndAsgnClause(what, w, uc)
      [] what.kind = "OrAsgn" -> OrAsgnClause(what, w, uc)
      [] what.kind = "OpAsgn" -> OpAsgnClause(what, w, uc)
      [] what.kind = "DString" -> DStringClause(what, w, uc)
      [] what.kind = "XString" -> XStringClause(what, w, uc)
      [] what.kind = "DSymbol" -> DSymbolClause(what, w, uc)
      [] what.kind = "Regexp" -> RegexpClause(what, w, uc)
      [] what.kind = "Regopt" -> RegoptClause(what, w, uc)
      [] what.kind = "Hash" -> HashClause(what, w, uc)
      [] what.kind = "Rescue" -> RescueClause(what, w, uc)
      [] what.kind = "Resbody" -> ResbodyClause(what, w, uc)
      [] what.kind = "Ensure" -> EnsureClause(what, w, uc)
      [] what.kind = "True" -> R(MK_True, w, uc)
      [] what.kind = "False" -> R(MK_False, w, uc)
      [] what.kind = "Splat" -> SplatClause(what, w, uc)
      [] what.kind \in UnsupportedKinds -> UnsupportedClause(what, w, uc)
      \* parser::BlockPass ("Send should have already handled the BlockPass") and
      \* parser::Node ("Unimplemented Parser Node")
      [] OTHER -> R(MK_EmptyTree, Exception_raise(w), uc)

\* the catch handler without its guard
catchHandler_everyFrame(what, w) ==
    beginError([w EXCEPT !.locReported = TRUE], what.loc, "InternalError")

\* catch (SorbetException &) of node2TreeImpl
catchHandler(what, w) ==
    IF ~w.locReported
    THEN beginError([w EXCEPT !.locReported = TRUE], what.loc, "InternalError")
    ELSE w

\* One frame of node2TreeImpl.  A frame entered while an exception unwinds
\* stands for code the throw has skipped: it does nothing.  The frame log
\* records, per frame, the node, the counter and the lengths of the error
\* queue and the name table on entry and exit, the tree returned, and
\* whether the frame was left by the exception.
node2TreeImpl(what, w, uc) ==
    IF w.exc \/ what.kind = "null" THEN R(MK_EmptyTree, w, uc)
    ELSE Then(typecase(what, w, uc), LAMBDA r :
         Then(IF r.w.exc THEN catchHandler(what, r.w) ELSE r.w, LAMBDA w1 :
             LET thrown == r.w.exc
                 tree == IF thrown THEN MK_EmptyTree ELSE r.tree
                 frame == [what |-> what, tree |-> tree, thrown |-> thrown,
                           uc0 |-> uc, uc1 |-> r.uc,
                           e0 |-> Len(w.errs), e1 |-> Len(w1.errs),
                           m0 |-> Len(w.mints), m1 |-> Len(w1.mints)]
             IN R(tree, [w1 EXCEPT !.frames = Append(@, frame)], r.uc)))

(* --------------------------- top-level lift --------------------------- *)

\* the lift without its pass-through
liftTopLevel_alwaysWrap(what) ==
    LET rhs == IF isa_tree(what, "InsSeq")
               THEN InsSeqStats(what) \o <<InsSeqExpr(what)>>
               ELSE <<what>>
    IN MK_ClassDef("root", MK_EmptyTree, <<>>, rhs, "Class")

liftTopLevel(what) ==
    IF isa_tree(what, "ClassDef") THEN what
    ELSE LET rhs == IF isa_tree(what, "InsSeq")
                    THEN InsSeqStats(what) \o <<InsSeqExpr(what)>>
                    ELSE <<what>>
         IN MK_ClassDef("root", MK_EmptyTree, <<>>, rhs, "Class")

(* ------------------------- trees the parser hands over ---------------- *)

SeqsUpTo(S, n) == UNION {[1..k -> S] : k \in 0..n}

pLVar(s) == P("LVar", UTF8(s), <<>>)
pLVarLhs(s) == P("LVarLhs", UTF8(s), <<>>)
pSelf == P("Self", noName, <<>>)
pSymbol(s) == P("Symbol", UTF8(s), <<>>)
pConst(scope, s) == P("Const", UTF8(s), <<scope>>)
pCbase == P("Cbase", noName, <<>>)
pSplat(x) == P("Splat", noName, <<x>>)
pBlockPass(x) == P("BlockPass", noName, <<x>>)
pUnsupported(k) == P(k, noName, <<>>)
pBegin(stmts) == P("Begin", noName, stmts)
pSend(recv, m, args) == P("Send", UTF8(m), <<recv>> \o args)
pCSend(recv, m, args) == P("CSend", UTF8(m), <<recv>> \o args)
pSuper(args) == P("Super", noName, args)
pZSuper == P("ZSuper", noName, <<>>)
pWhile(c, b) == P("While", noName, <<c, b>>)
pUntil(c, b) == P("Until", noName, <<c, b>>)
pKwbegin(stmts) == P("Kwbegin", noName, stmts)
pArgs(formals) == P("Args", noName, formals)
pArg(s) == P("Arg", UTF8(s), <<>>)
pMlhs(exprs) == P("Mlhs", noName, exprs)
pBlock(send, args, body) == P("Block", noName, <<send, args, body>>)
pFor(vars, expr, body) == P("For", noName, <<vars, expr, body>>)
pClass(name, super, body) == P("Class", noName, <<name, super, body>>)
pModule(name, body) == P("Module", noName, <<name, body>>)
pSClass(expr, body) == P("SClass", noName, <<expr, body>>)
pDefMethod(m, args, body) == P("DefMethod", UTF8(m), <<args, body>>)
pDefS(singleton, m, args, body) == P("DefS", UTF8(m), <<singleton, args, body>>)

pIVar(s) == P("IVar", UTF8(s), <<>>)
pAnd(l, r) == P("And", noName, <<l, r>>)
pOr(l, r) == P("Or", noName, <<l, r>>)

pSplatLhs(v) == P("SplatLhs", noName, <<v>>)
pMasgn(lhs, rhs) == P("Masgn", noName, <<lhs, rhs>>)

pWhen(patterns, body) == P("When", noName, <<body>> \o patterns)
pCase(condition, whens, else_) == P("Case", noName, <<condition, else_>> \o whens)

pArray(elts) == P("Array", noName, elts)
pResbody(exception, var, body) == P("Resbody", noName, <<exception, var, body>>)
pRescue(body, rescue, else_) == P("Rescue", noName, <<body, else_>> \o rescue)
pEnsure(body, ensure) == P("Ensure", noName, <<body, ensure>>)

\* argument lists: at most MaxArgs arguments, a block-pass only in last place
ArgLists ==
    {args \in SeqsUpTo({pLVar("a"), pSplat(pLVar("a")), pBlockPass(pLVar("a")),
                        pBlockPass(pSymbol("m"))}, MaxArgs) :
        \A i \in DOMAIN args : args[i].kind = "BlockPass" => i = Len(args)}

Calls ==
    {pSend(recv, "foo", args) : recv \in {Null, pLVar("a")}, args \in ArgLists}
    \cup {pCSend(pLVar("a"), "m", args) : args \in ArgLists}
    \cup {pCSend(pSend(Null, "foo", <<>>), "m", <<>>),
          pCSend(pCSend(pLVar("a"), "b", <<>>), "m", <<pCSend(pLVar("a"), "c", <<>>)>>)}
    \cup {pSuper(args) : args \in ArgLists}
    \cup {pZSuper}

safeNav == pCSend(pLVar("a"), "m", <<>>)
bareCall == pSend(Null, "foo", <<>>)
\* a block-pass outside an argument list: malformed input
stray == pBlockPass(pLVar("a"))

Conds == {pLVar("a"), bareCall, safeNav, pUnsupported("IFlipflop"), pBegin(<<>>), stray}
Bodies == {Null, safeNav, pUnsupported("Redo"), stray, pSend(Null, "foo", <<pBlockPass(pLVar("a"))>>)}
Formals ==
    {Null, pArgs(<<pArg("x")>>), pArgs(<<pMlhs(<<pArg("x"), pArg("y")>>)>>),
     pArgs(<<pMlhs(<<pArg("x")>>), pArg("y"), pMlhs(<<pArg("z")>>)>>)}

Loops ==
    {pWhile(c, b) : c \in Conds, b \in Bodies} \cup {pUntil(c, b) : c \in Conds, b \in Bodies}

Blocks ==
    {pBlock(send, formals, body) :
        send \in {bareCall, pSend(pLVar("a"), "foo", <<pLVar("a")>>), safeNav,
                  pSend(Null, "foo", <<pSplat(pLVar("a"))>>),
                  pCSend(pLVar("a"), "m", <<pSplat(pLVar("a"))>>), pSuper(<<>>), pZSuper},
        formals \in Formals,
        body \in {Null, safeNav, pUnsupported("Redo"), stray,
                  pSend(Null, "foo", <<pBlockPass(pLVar("a"))>>)}}

Fors ==
    {pFor(vars, expr, body) :
        vars \in {pLVarLhs("i"), pMlhs(<<pLVarLhs("i")>>), pMlhs(<<pLVarLhs("i"), pLVarLhs("j")>>),
                  P("IVarLhs", UTF8("@x"), <<>>)},
        expr \in {pLVar("a"), bareCall, pBegin(<<>>)},
        body \in {Null, safeNav, stray}}

Defs ==
    {pDefMethod("f", formals, body) : formals \in Formals,
        body \in Bodies \cup {pWhile(pLVar("a"), safeNav)}}
    \cup {pDefS(singleton, "f", formals, body) : singleton \in {pSelf, pLVar("a")},
            formals \in Formals, body \in {Null, safeNav, stray}}

ScopeBodies ==
    {Null, safeNav, stray, pBegin(<<safeNav, pUnsupported("Undef")>>),
     pDefMethod("f", Null, safeNav),
     pBegin(<<pDefMethod("f", Null, safeNav), pDefS(pSelf, "g", Null, safeNav), safeNav>>)}

ClassNames == {pConst(Null, "A"), pConst(pCbase, "B")}

Scopes ==
    {pClass(name, super, body) : name \in ClassNames,
        super \in {Null, pConst(Null, "S"), safeNav}, body \in ScopeBodies}
    \cup {pModule(name, body) : name \in ClassNames, body \in ScopeBodies}
    \cup {pSClass(expr, body) : expr \in {pSelf, pLVar("a")}, body \in ScopeBodies}

\* deeper nestings
Inner ==
    {pWhile(pLVar("a"), stray), pUntil(safeNav, stray), pBlock(safeNav, Null, stray),
     pBlock(bareCall, Null, safeNav), pFor(pLVarLhs("i"), pLVar("a"), stray),
     pDefMethod("f", Null, stray), pSClass(pSelf, safeNav), pModule(pConst(Null, "A"), stray),
     pClass(pConst(Null, "A"), Null, pDefMethod("f", Null, safeNav)),
     pUnsupported("Backref")}

Nested ==
    {pWhile(pLVar("a"), x) : x \in Inner}
    \cup {pBlock(bareCall, Null, x) : x \in Inner}
    \cup {pClass(pConst(Null, "C"), Null, x) : x \in Inner}
    \cup {pDefMethod("g", Null, x) : x \in Inner}
    \cup {pBegin(<<x, safeNav>>) : x \in Inner}

Operands == {pLVar("a"), pIVar("@x"), bareCall, safeNav, pBegin(<<>>), stray}

Logicals ==
    {pAnd(l, r) : l \in Operands, r \in Operands}
    \cup {pOr(l, r) : l \in Operands, r \in Operands}
    \cup {pAnd(pOr(bareCall, safeNav), pAnd(bareCall, pLVar("a"))),
          pOr(pAnd(pLVar("a"), bareCall), pOr(safeNav, bareCall))}

TargetLists ==
    LET x == pLVarLhs("x")
        y == pLVarLhs("y")
        z == pLVarLhs("z")
    IN {<<x>>, <<x, y>>, <<x, y, z>>,
        <<x, pSplatLhs(y), z>>, <<pSplatLhs(y), z>>, <<x, pSplatLhs(y)>>,
        <<x, pSplatLhs(Null)>>, <<pSplatLhs(Null), z>>, <<x, pSplatLhs(Null), z>>,
        <<x, y, pSplatLhs(z), x, y>>, <<pSplatLhs(x), y, z>>,
        <<x, pMlhs(<<y, z>>)>>, <<pMlhs(<<x, pSplatLhs(y)>>), pSplatLhs(Null), z>>,
        <<pSplatLhs(x), pSplatLhs(y)>>, <<x, pUnsupported("Backref")>>, <<x, stray>>}

Masgns ==
    {pMasgn(pMlhs(targets), rhs) :
        targets \in TargetLists, rhs \in {pLVar("a"), bareCall, safeNav, stray}}

Whens ==
    {<<pWhen(<<bareCall, pLVar("a")>>, safeNav)>>,
     <<pWhen(<<pLVar("a")>>, Null), pWhen(<<bareCall, safeNav, pIVar("@x")>>, pLVar("a"))>>,
     <<pWhen(<<pLVar("a"), stray>>, Null)>>,
     <<pLVar("a")>>}

Cases ==
    {pCase(condition, whens, else_) :
        condition \in {Null, pLVar("a"), bareCall}, whens \in Whens, else_ \in {Null, safeNav}}

pInteger(text) == P("Integer", UTF8(text), <<>>)

IntegerTexts == {"0", "42", "007", "1_000", "9223372036854775808", "99999999999999999999"}

\* integer literals, alone and as the receiver of a call with an argument
Integers ==
    {pInteger(t) : t \in IntegerTexts}
    \cup {pSend(pInteger(t), "m", <<safeNav>>) : t \in IntegerTexts}

pAndAsgn(left, right) == P("AndAsgn", noName, <<left, right>>)
pOrAsgn(left, right) == P("OrAsgn", noName, <<left, right>>)
pOpAsgn(left, op, right) == P("OpAsgn", UTF8(op), <<left, right>>)
pIndex(recv, args) == pSend(recv, "[]", args)

\* left sides of compound assignments: a.x, self.x, a[i], a[i, j], a[*a],
\* foo.x[a&.m], a variable, an instance variable, a constant, a safe navigation
AsgnTargets ==
    {pSend(pLVar("a"), "x", <<>>), pSend(pSelf, "x", <<>>),
     pIndex(pLVar("a"), <<pLVar("i")>>), pIndex(pLVar("a"), <<pLVar("i"), pLVar("j")>>),
     pIndex(pLVar("a"), <<pSplat(pLVar("a"))>>),
     pIndex(pSend(bareCall, "x", <<>>), <<safeNav>>),
     pLVarLhs("a"), P("IVarLhs", UTF8("@x"), <<>>),
     P("ConstLhs", UTF8("A"), <<Null>>), P("ConstLhs", UTF8("B"), <<pConst(Null, "A")>>),
     safeNav}

CompoundAsgns ==
    UNION {{pAndAsgn(l, r), pOrAsgn(l, r), pOpAsgn(l, "+", r)} :
              l \in AsgnTargets, r \in {pLVar("v"), safeNav, stray}}

pString(s) == P("String", UTF8(s), <<>>)
pRegopt(opts) == P("Regopt", UTF8(opts), <<>>)

\* the pieces of "", "s", "#{a}", "s#{a}", "#{a}s", "s#{a}s", "#{a}#{a}",
\* "#{a&.m}s" and of two adjacent literals
PieceLists ==
    LET s == pString("s")
        x == pBegin(<<pLVar("a")>>)
    IN {<<>>, <<s>>, <<x>>, <<s, x>>, <<x, s>>, <<s, x, s>>, <<x, x>>,
        <<pBegin(<<safeNav>>), s>>, <<s, pString("t")>>}

Interpolations ==
    UNION {{P("DString", noName, q), P("XString", noName, q), P("DSymbol", noName, q)}
              \cup {P("Regexp", noName, <<pRegopt(o)>> \o q) : o \in {"", "i", "mxu"}} :
           q \in PieceLists}

pPair(key, value) == P("Pair", noName, <<key, value>>)
pKwsplat(expr) == P("Kwsplat", noName, <<expr>>)

\* [], [a], [*a], [a, *b], [*a, b], [a, *b, c], [*a, *b], [a, b, *c, a&.m],
\* [*a, b, *c] and the hashes of the same shapes
Literals ==
    LET a == pLVar("a")
        b == pLVar("b")
        c == pLVar("c")
        ElementLists ==
            {<<>>, <<a>>, <<pSplat(a)>>, <<a, pSplat(b)>>, <<pSplat(a), b>>,
             <<a, pSplat(b), c>>, <<pSplat(a), pSplat(b)>>, <<a, b, pSplat(c), safeNav>>,
             <<pSplat(bareCall), b, pSplat(c)>>}
        entry(x) == IF x.kind = "Splat" THEN pKwsplat(x.kids[1]) ELSE pPair(pSymbol("k"), x)
    IN {pArray(l) : l \in ElementLists}
       \cup {P("Hash", noName, [i \in DOMAIN l |-> entry(l[i])]) : l \in ElementLists}

Resbodies ==
    {pResbody(Null, Null, Null),
     pResbody(pArray(<<pConst(Null, "E")>>), pLVarLhs("e"), safeNav),
     pResbody(pArray(<<pConst(Null, "E"), pConst(Null, "F")>>), P("IVarLhs", UTF8("@x"), <<>>),
              pLVar("a")),
     pResbody(pArray(<<pSplat(pLVar("a"))>>), Null, bareCall)}

Rescues ==
    {pRescue(body, rescue, else_) :
        body \in {Null, safeNav}, else_ \in {Null, safeNav},
        rescue \in {<<r>> : r \in Resbodies}
                   \cup {<<pResbody(pArray(<<pConst(Null, "E")>>), pLVarLhs("e"), safeNav),
                           pResbody(Null, Null, bareCall)>>}}

Ensures ==
    {pEnsure(body, fin) : body \in Rescues \cup {Null, safeNav, stray}, fin \in {Null, safeNav}}

\* `begin ... end while c`, `b while c` and the until forms
PostLoops ==
    {P(k, noName, <<c, b>>) :
        k \in {"WhilePost", "UntilPost"},
        c \in {pLVar("a"), safeNav, pBegin(<<>>)},
        b \in {pKwbegin(<<>>), pKwbegin(<<safeNav>>), pKwbegin(<<pLVar("a"), safeNav>>),
               Null, safeNav, stray}}

Statements ==
    {pLVar("a"), pSelf, pBegin(<<>>), stray} \cup {pUnsupported(k) : k \in UnsupportedKinds}
    \cup Calls \cup Loops \cup Blocks \cup Fors \cup Defs \cup Scopes \cup Nested
    \cup Logicals \cup Masgns \cup Cases \cup Rescues \cup Ensures \cup Integers \cup CompoundAsgns
    \cup Interpolations \cup Literals \cup PostLoops

\* the statements of a top-level Begin
TopStatements ==
    {safeNav, stray, pUnsupported("Preexe"),
     pSend(Null, "foo", <<pBlockPass(pLVar("a"))>>),
     pDefMethod("f", Null, safeNav), pDefMethod("g", pArgs(<<pMlhs(<<pArg("x")>>)>>), safeNav),
     pClass(pConst(Null, "A"), Null, safeNav), pSClass(pSelf, safeNav),
     pModule(pConst(Null, "M"), safeNav),
     pFor(pLVarLhs("i"), pLVar("a"), safeNav)}

Programs ==
    Statements \cup {pBegin(stmts) : stmts \in UNION {[1..k -> TopStatements] : k \in 1..MaxStmts}}

Inputs == {Locate(t, <<>>) : t \in Programs}

(* --------------------------- the driver ------------------------------- *)

\* the threads that call node2Tree
Threads == {1, 2}

\* no entry of the name table
noMint == [kind |-> "none", base |-> "", num |-> 0, scope |-> [by |-> "", at |-> <<>>]]

VARIABLES
    pc,             \* where the caller and node2Tree are
    what,           \* the parse tree node2Tree was called with
    uniqueCounter,  \* node2Tree's counter
    result,         \* node2Tree's result
    errors,         \* ctx.state's error queue (drained by the caller before each call)
    minted,         \* the names freshNameUnique entered during the call
    frames,         \* the frames of node2TreeImpl of the call
    locReported,    \* the file-scoped flag
    failedBefore,   \* whether an earlier call of node2Tree has thrown (history)
    invocations,    \* two calls of node2Tree running on threads of their own
    longBegin       \* the statements of one long Begin, lowered in turn

vars == <<pc, what, uniqueCounter, result, errors, minted, frames, locReported, failedBefore,
          invocations, longBegin>>

Init ==
    /\ pc = "idle"
    /\ what = Null
    /\ uniqueCounter = Counter("node2Tree", <<>>)
    /\ result = MK_EmptyTree
    /\ errors = <<>>
    /\ minted = <<>>
    /\ frames = <<>>
    /\ locReported = FALSE
    /\ failedBefore = FALSE
    /\ invocations = [t \in Threads |-> [pc |-> "idle", handlers |-> <<>>, errs |-> <<>>]]
    /\ longBegin = [uniqueCounter |-> Counter("node2Tree", <<>>), n |-> 0,
                    first |-> noMint, last |-> noMint]

\* the caller calls node2Tree(ctx, what); u2 uniqueCounter = 1
Enter ==
    /\ pc \in {"idle", "returned", "thrown"}
    /\ \E t \in Inputs : what' = t
    /\ pc' = "entered"
    /\ uniqueCounter' = Counter("node2Tree", <<>>)
    /\ result' = MK_EmptyTree
    /\ errors' = <<>>
    /\ minted' = <<>>
    /\ frames' = <<>>
    /\ failedBefore' = (failedBefore \/ pc = "thrown")
    /\ UNCHANGED locReported
    /\ UNCHANGED <<invocations, longBegin>>

\* auto result = node2TreeImpl(ctx, std::move(what), uniqueCounter)
Lower ==
    /\ pc = "entered"
    /\ \E rtl \in BOOLEAN :
       \E r \in {node2TreeImpl(what, [World0(locReported) EXCEPT !.rtl = rtl],
                                uniqueCounter)} :
          /\ pc' = IF r.w.exc THEN "unwinding" ELSE "lowered"
          /\ result' = r.tree
          /\ uniqueCounter' = r.uc
          /\ errors' = r.w.errs
          /\ minted' = r.w.mints
          /\ frames' = r.w.frames
          /\ locReported' = r.w.locReported
    /\ UNCHANGED <<what, failedBefore>>
    /\ UNCHANGED <<invocations, longBegin>>

\* result = liftTopLevel(ctx, loc, std::move(result))
Lift ==
    /\ pc = "lowered"
    /\ result' = liftTopLevel(result)
    /\ pc' = "lifted"
    /\ UNCHANGED <<what, uniqueCounter, errors, minted, frames, locReported, failedBefore>>
    /\ UNCHANGED <<invocations, longBegin>>

\* return Verifier::run(ctx, std::move(result))
Return ==
    /\ pc = "lifted"
    /\ pc' = "returned"
    /\ UNCHANGED <<what, uniqueCounter, result, errors, minted, frames, locReported, failedBefore>>
    /\ UNCHANGED <<invocations, longBegin>>

\* the catch of node2Tree rethrowing without the reset
Catch_noReset ==
    /\ pc = "unwinding"
    /\ pc' = "thrown"
    /\ UNCHANGED <<what, uniqueCounter, result, errors, minted, frames, locReported,
                   failedBefore>>
    /\ UNCHANGED <<invocations, longBegin>>

\* catch (SorbetException &) { locReported = false; throw; }
Catch ==
    /\ pc = "unwinding"
    /\ locReported' = FALSE
    /\ pc' = "thrown"
    /\ UNCHANGED <<what, uniqueCounter, result, errors, minted, frames, failedBefore>>
    /\ UNCHANGED <<invocations, longBegin>>

Next == Enter \/ Lower \/ Lift \/ Return \/ Catch

Spec == Init /\ [][Next]_vars

(* ------------------- two invocations of the driver -------------------- *)

\* trees whose lowering raises
Raising ==
    {Locate(t, <<>>) : t \in {stray, pBegin(<<stray>>), pBegin(<<safeNav, stray>>),
                              pWhile(pLVar("a"), pBegin(<<safeNav, stray>>))}}

\* the nodes whose frames the exception raised in tree unwinds through,
\* innermost first: the catch handlers that run
Unwound(tree) ==
    LET r == node2TreeImpl(tree, World0(TRUE), Counter("node2Tree", <<>>))
        thrown == SelectSeq(r.w.frames, LAMBDA f : f.thrown)
    IN [i \in DOMAIN thrown |-> thrown[i].what]

\* thread t calls node2Tree on a tree of its own, and the lowering raises
ThreadEnter(t) ==
    /\ invocations[t].pc = "idle"
    /\ \E tree \in Raising :
          invocations' = [invocations EXCEPT ![t] = [pc |-> "unwinding",
                                                     handlers |-> Unwound(tree),
                                                     errs |-> <<>>]]
    /\ UNCHANGED <<pc, what, uniqueCounter, result, errors, minted, frames, locReported,
                   failedBefore, longBegin>>

\* catch (SorbetException &) of the next frame: if (!locReported), the read
HandlerTest(t) ==
    /\ invocations[t].pc = "unwinding"
    /\ invocations[t].handlers # <<>>
    /\ invocations' = [invocations EXCEPT ![t] =
                          IF locReported THEN [@ EXCEPT !.handlers = Tail(@)]
                          ELSE [@ EXCEPT !.pc = "reporting"]]
    /\ UNCHANGED <<pc, what, uniqueCounter, result, errors, minted, frames, locReported,
                   failedBefore, longBegin>>

\* locReported = true; ctx.state.beginError(what->loc, InternalError); throw
HandlerReport(t) ==
    /\ invocations[t].pc = "reporting"
    /\ locReported' = TRUE
    /\ invocations' = [invocations EXCEPT ![t] =
                          [pc |-> "unwinding",
                           handlers |-> Tail(@.handlers),
                           errs |-> Append(@.errs, [code |-> "InternalError",
                                                    loc |-> Head(@.handlers).loc])]]
    /\ UNCHANGED <<pc, what, uniqueCounter, result, errors, minted, frames, failedBefore,
                   longBegin>>

\* catch (SorbetException &) of node2Tree: locReported = false; throw
ThreadCatch(t) ==
    /\ invocations[t].pc = "unwinding"
    /\ invocations[t].handlers = <<>>
    /\ locReported' = FALSE
    /\ invocations' = [invocations EXCEPT ![t].pc = "thrown"]
    /\ UNCHANGED <<pc, what, uniqueCounter, result, errors, minted, frames, failedBefore,
                   longBegin>>

NextConcurrent ==
    \E t \in Threads : ThreadEnter(t) \/ HandlerTest(t) \/ HandlerReport(t) \/ ThreadCatch(t)

SpecConcurrent == Init /\ [][NextConcurrent]_vars

(* ------------------- one Begin of many statements --------------------- *)

\* the temporaries after which the run is cut off
MaxMints == U2Modulus + 4

\* the statements of the Begin: each mints a temporary
MintingStatements ==
    {Locate(t, <<>>) : t \in {safeNav, pSend(Null, "foo", <<pBlockPass(pLVar("a"))>>)}}

\* One turn of the loop of the Begin clause of a top-level Begin:
\* node2TreeImpl(ctx, std::move(stat), uniqueCounter) with node2Tree's
\* counter.  Of the names entered the first and the latest are kept.
LowerStat ==
    /\ longBegin.n < MaxMints
    /\ \E stat \in MintingStatements :
       \E r \in {node2TreeImpl(stat, World0(FALSE), longBegin.uniqueCounter)} :
          longBegin' = [uniqueCounter |-> r.uc,
                        n |-> longBegin.n + Len(r.w.mints),
                        first |-> IF longBegin.n = 0 THEN r.w.mints[1] ELSE longBegin.first,
                        last |-> r.w.mints[Len(r.w.mints)]]
    /\ UNCHANGED <<pc, what, uniqueCounter, result, errors, minted, frames, locReported,
                   failedBefore, invocations>>

NextLongBegin == LowerStat

SpecLongBegin == Init /\ [][NextLongBegin]_vars

(* ----------------------------- properties ----------------------------- *)

\* every node of a tree: the tree, its children and its block
RECURSIVE SubTrees(_)
SubTrees(t) ==
    {t} \cup UNION {SubTrees(t.kids[i]) : i \in DOMAIN t.kids}
        \cup UNION {SubTrees(t.block[i]) : i \in DOMAIN t.block}

Frames == {frames[i] : i \in DOMAIN frames}
ThrownFrames == {i \in DOMAIN frames : frames[i].thrown}
InternalErrors == SelectSeq(errors, LAMBDA e : e.code = "InternalError")
\* node2Tree has produced its output
Output == pc \in {"lifted", "returned"}
\* what identifies a temporary: the (category, base name, counter) triple
Triple(m) == <<m.kind, m.base, m.num>>

BareSendsAreSelfPrivate ==
    /\ Output => \A t \in SubTrees(result) :
                     isa_tree(t, "Send") => ~isa_tree(SendRecv(t), "EmptyTree")
    /\ \A f \in Frames :
          (f.what.kind = "Send" /\ Receiver(f.what).kind = "null" /\ ~f.thrown)
              => /\ isa_tree(f.tree, "Send")
                 /\ isa_tree(SendRecv(f.tree), "Self")
                 /\ "PRIVATE_OK" \in f.tree.flags

\* C3: when the lowering of a node at any depth raises, the call emits
\* exactly one InternalError, at the innermost failing node, every enclosing
\* frame is left by the exception, and the exception leaves node2Tree; a call
\* in which nothing raises emits none.
OneInternalErrorAtInnermost ==
    /\ ThrownFrames # {} =>
          /\ pc \in {"unwinding", "thrown"}
          /\ Len(InternalErrors) = 1
          /\ \E i \in ThrownFrames :
                /\ \A j \in ThrownFrames : i <= j
                /\ InternalErrors[1].loc = frames[i].what.loc
                /\ \A j \in i..Len(frames) : frames[j].thrown
    /\ ThrownFrames = {} => (Len(InternalErrors) = 0 /\ pc \notin {"unwinding", "thrown"})

\* an exception that has unwound three frames and left node2Tree
NestedFailureRethrown ==
    /\ pc = "thrown"
    /\ Cardinality(ThrownFrames) >= 3
    /\ Len(InternalErrors) = 1

\* C4: whatever calls of node2Tree came before, failed or not, the flag
\* locReported is unset when a call starts, so a call that fails after an
\* earlier failed call still emits its InternalError.
FlagUnsetAtEntry ==
    /\ pc \in {"idle", "entered", "returned", "thrown"} => ~locReported
    /\ (failedBefore /\ pc \in {"unwinding", "thrown"}) => Len(InternalErrors) = 1

\* a second failing call has reported its own InternalError
LaterFailureReported ==
    /\ failedBefore
    /\ pc = "thrown"
    /\ Len(InternalErrors) = 1

\* C5: the frame of a node of an unsupported kind emits exactly one
\* UnsupportedNode at the node, returns EmptyTree, is not left by an
\* exception and leaves the counter and the name table alone; the statements
\* of a Begin that completes all have been lowered.
UnsupportedNodesDegrade ==
    /\ \A f \in Frames :
          f.what.kind \in UnsupportedKinds
              => /\ ~f.thrown
                 /\ f.tree = MK_EmptyTree
                 /\ f.e1 = f.e0 + 1
                 /\ errors[f.e1] = [code |-> "UnsupportedNode", loc |-> f.what.loc]
                 /\ f.uc1 = f.uc0
                 /\ f.m1 = f.m0
    /\ \A f \in Frames :
          (f.what.kind = "Begin" /\ ~f.thrown)
              => \A k \in DOMAIN f.what.kids : \E g \in Frames : g.what = f.what.kids[k]

\* an unsupported first statement, and the statement after it lowered
UnsupportedThenSibling ==
    /\ pc = "returned"
    /\ what.kind = "Begin"
    /\ Len(what.kids) = 2
    /\ what.kids[1].kind \in UnsupportedKinds
    /\ \E i, j \in DOMAIN frames :
          /\ i < j
          /\ frames[i].what = what.kids[1]
          /\ frames[j].what = what.kids[2]
          /\ ~isa_tree(frames[j].tree, "EmptyTree")

\* C6, as the specification states it: every ClassDef of the output has at
\* least one ancestor.
EveryClassDefHasAncestor ==
    Output => \A t \in SubTrees(result) :
                  isa_tree(t, "ClassDef") => Len(ClassDefAncestors(t)) >= 1

\* C6, amended: the ClassDef lowered from a Class has exactly one ancestor
\* (the superclass or the todo placeholder); the ClassDef lowered from a
\* Module or an SClass and the root ClassDef of the lift have none.
ClassDefAncestorsByOrigin ==
    /\ \A f \in Frames :
          (isa_tree(f.tree, "ClassDef") /\ ~f.thrown)
              => \/ /\ f.what.kind = "Class"
                    /\ Len(ClassDefAncestors(f.tree)) = 1
                    /\ f.what.kids[2].kind = "null"
                          => ClassDefAncestors(f.tree)[1] = MK_Constant("todo")
                 \/ /\ f.what.kind \in {"Module", "SClass"}
                    /\ ClassDefAncestors(f.tree) = <<>>
    /\ (Output /\ result.name = Symbol("root")) => ClassDefAncestors(result) = <<>>

\* an output whose root, module and singleton class have no ancestor and
\* whose class has one
ClassDefsOfEveryOrigin ==
    /\ pc = "returned"
    /\ result.name = Symbol("root")
    /\ \E f \in Frames : f.what.kind = "Class" /\ isa_tree(f.tree, "ClassDef")
    /\ \E f \in Frames : f.what.kind = "SClass" /\ isa_tree(f.tree, "ClassDef")

\* C7, as the specification states it: the name of every ClassDef of the
\* output is a constant expression.
EveryClassDefNameIsConstant ==
    Output => \A t \in SubTrees(result) :
                  isa_tree(t, "ClassDef")
                      => ClassDefName(t).kind \in {"UnresolvedConstant", "Constant"}

\* C7, amended: the name of the ClassDef lowered from a Class or a Module is
\* the lowering of the parse name (an UnresolvedConstant for a Const); the
\* name of the ClassDef lowered from an SClass is the class-kind identifier
\* <singleton class>; the name of the root ClassDef is EmptyTree.
ClassDefNamesByOrigin ==
    /\ \A f \in Frames :
          (isa_tree(f.tree, "ClassDef") /\ ~f.thrown)
              => \/ /\ f.what.kind \in {"Class", "Module"}
                    /\ f.what.kids[1].kind = "Const"
                    /\ isa_tree(ClassDefName(f.tree), "UnresolvedConstant")
                    /\ ClassDefName(f.tree).name = f.what.kids[1].name
                 \/ /\ f.what.kind = "SClass"
                    /\ ClassDefName(f.tree) = MK_UnresolvedIdent("Class", Names_singleton)
    /\ (Output /\ result.name = Symbol("root")) => ClassDefName(result) = MK_EmptyTree

\* an output with a root around a module and a singleton class
NamedAndUnnamedClassDefs ==
    /\ pc = "returned"
    /\ result.name = Symbol("root")
    /\ \E f \in Frames : f.what.kind = "Module" /\ isa_tree(f.tree, "ClassDef")
    /\ \E f \in Frames : f.what.kind = "SClass" /\ isa_tree(f.tree, "ClassDef")

\* the Send a lowered call consists of: the tree itself, or for a
\* safe-navigation call the else branch of the If of the InsSeq
CallSend(t) ==
    IF isa_tree(t, "Send") THEN t ELSE InsSeqExpr(t).kids[3]

\* C8: no Block of a lowered tree is a child of a node, only the block of a
\* Send; the tree lowered from a parse Block is the tree of its call with
\* the block in the Send of that call, and a block-pass argument ends up as
\* the block of the Send it was passed to.
BlocksOnlyInSends ==
    /\ \A t \in SubTrees(result) :
          /\ \A i \in DOMAIN t.kids : ~isa_tree(t.kids[i], "Block")
          /\ t.block # <<>> => (isa_tree(t, "Send") /\ isa_tree(t.block[1], "Block"))
    /\ \A f \in Frames :
          (f.what.kind = "Block" /\ ~f.thrown)
              => /\ \/ isa_tree(f.tree, "Send")
                    \/ /\ f.what.kids[1].kind = "CSend"
                       /\ isa_tree(f.tree, "InsSeq")
                       /\ isa_tree(InsSeqExpr(f.tree), "If")
                       /\ isa_tree(InsSeqExpr(f.tree).kids[3], "Send")
                 /\ CallSend(f.tree).block # <<>>
                 /\ \E g \in Frames :
                       /\ g.what = f.what.kids[1]
                       /\ [f.tree EXCEPT !.block = <<>>,
                                         !.kids = IF isa_tree(f.tree, "Send") THEN @
                                                  ELSE [@ EXCEPT ![Len(@)].kids[3].block = <<>>]]
                            = g.tree
    /\ \A f \in Frames :
          (/\ f.what.kind = "Send"
           /\ ~f.thrown
           /\ \E i \in DOMAIN f.what.kids : f.what.kids[i].kind = "BlockPass")
              => (isa_tree(f.tree, "Send") /\ f.tree.block # <<>>)

\* a block attached through a safe-navigation call, with a block-pass in its body
BlockAttachedThroughSafeNav ==
    /\ pc = "returned"
    /\ \E f \in Frames :
          /\ f.what.kind = "Block"
          /\ f.what.kids[1].kind = "CSend"
          /\ isa_tree(f.tree, "InsSeq")
          /\ CallSend(f.tree).block # <<>>
    /\ \E f \in Frames :
          /\ f.what.kind = "Send"
          /\ \E i \in DOMAIN f.what.kids : f.what.kids[i].kind = "BlockPass"
          /\ f.tree.block # <<>>

\* C9: the lift returns a ClassDef unchanged; any other tree it wraps in
\* one root ClassDef of kind class whose body is the statements of the
\* InsSeq followed by its expression, or the tree alone; lifting the result
\* again changes nothing.
LiftContract ==
    [][pc = "lowered" =>
          /\ isa_tree(result, "ClassDef") => result' = result
          /\ ~isa_tree(result, "ClassDef") =>
                /\ isa_tree(result', "ClassDef")
                /\ result'.name = Symbol("root")
                /\ result'.flags = {"Class"}
                /\ ClassDefRhs(result') = IF isa_tree(result, "InsSeq")
                                          THEN InsSeqStats(result) \o <<InsSeqExpr(result)>>
                                          ELSE <<result>>
                /\ Cardinality({t \in SubTrees(result') :
                                   isa_tree(t, "ClassDef") /\ t.name = Symbol("root")}) = 1
          /\ liftTopLevel(result') = result']_vars

\* a lifted sequence of statements
LiftedSequence ==
    /\ pc = "lifted"
    /\ what.kind = "Begin"
    /\ result.name = Symbol("root")
    /\ Len(ClassDefRhs(result)) >= 2

\* C10, as the specification states it: Until(c, b) lowers to the tree
\* While(Send(c, !), b) lowers to, and moves the counter as far.
UntilIsWhileOfNot ==
    (pc = "lowered" /\ what.kind = "Until")
        => LET c == what.kids[1]
               b == what.kids[2]
               negated == PAt("Send", Names_bang, <<c>>, what.loc)
               r == node2TreeImpl(PAt("While", noName, <<negated, b>>, what.loc),
                                  World0(FALSE), Counter("node2Tree", <<>>))
           IN /\ ~r.w.exc
              /\ r.tree = result
              /\ r.uc.val = uniqueCounter.val

\* the frame that lowered a node, the tree it returned and what it minted
FrameOf(node) == CHOOSE f \in Frames : f.what = node
Lowered(node) == IF node.kind = "null" THEN MK_EmptyTree ELSE FrameOf(node).tree
MintedIn(f) == SubSeq(minted, f.m0 + 1, f.m1)
TempOf(mint) == [kind |-> mint.kind, base |-> mint.base, num |-> mint.num]

\* C11: the tree of And(l, r) is If(l', r', l') without a temporary of the
\* clause's own when l' is a reference; otherwise the clause mints one
\* temporary t of base && right after lowering l and the tree is
\* InsSeq(t = l', If(t, r', t)).  Or is the same with the branches swapped
\* and base ||.
AndOrContract ==
    \A f \in Frames :
        (f.what.kind \in {"And", "Or"} /\ ~f.thrown)
            => LET isAnd == f.what.kind = "And"
                   fl == FrameOf(f.what.kids[1])
                   fr == FrameOf(f.what.kids[2])
                   l == fl.tree
                   r == fr.tree
                   own == (f.m1 - f.m0) - (fl.m1 - fl.m0) - (fr.m1 - fr.m0)
               IN IF isa_reference(l)
                  THEN /\ own = 0
                       /\ f.tree = IF isAnd THEN MK_If(l, r, l) ELSE MK_If(l, l, r)
                  ELSE /\ own = 1
                       /\ fr.m0 = fl.m1 + 1
                       /\ minted[fr.m0].base = (IF isAnd THEN "&&" ELSE "||")
                       /\ LET t == MK_Local(TempOf(minted[fr.m0]))
                          IN f.tree = MK_InsSeq1(MK_Assign(t, l),
                                                 IF isAnd THEN MK_If(t, r, t)
                                                 ELSE MK_If(t, t, r))

\* an Or over an And and an Or: temporaries for the calls, none for the local
NestedAndOr ==
    /\ pc = "returned"
    /\ what.kind = "Or"
    /\ what.kids[1].kind = "And"
    /\ Len(minted) >= 3
    /\ \E f \in Frames : f.what.kind = "And" /\ isa_tree(f.tree, "If")

\* the Send node the CSend clause synthesizes around the temporary
CSendSendNode(csend, temp) ==
    PAt("Send", csend.name,
        <<PAt("LVar", temp, <<>>, Receiver(csend).loc)>> \o CallArgs(csend), csend.loc)

\* C12, as the specification states it: the tree of recv&.m(args) is
\* InsSeq(t = recv', If(t.nil?(), nil, S)) with S a Send of m whose receiver
\* is t and whose arguments are the lowered arguments.
SafeNavCallsOnTemporary ==
    \A f \in Frames :
        (f.what.kind = "CSend" /\ ~f.thrown)
            => LET temp == TempOf(minted[f.m0 + 1])
                   t == MK_Local(temp)
                   recv == Lowered(Receiver(f.what))
                   plain == SelectSeq(CallArgs(f.what), LAMBDA a : a.kind # "BlockPass")
                   S == InsSeqExpr(f.tree).kids[3]
               IN /\ f.tree = MK_InsSeq1(MK_Assign(t, recv), MK_If(MK_Send0(t, Names_nil_p), MK_Nil, S))
                  /\ isa_tree(S, "Send")
                  /\ SendRecv(S) = t
                  /\ S.name = f.what.name
                  /\ SendArgs(S) = [i \in DOMAIN plain |-> Lowered(plain[i])]

\* C12, amended: the clause mints one temporary t of base <assignTemp>
\* before lowering the receiver, and the tree of recv&.m(args) is
\* InsSeq(t = recv', If(t.nil?(), nil, S)) with S the lowering of the call
\* t.m(args): a Send of m with receiver t over the lowered arguments when
\* no argument is a splat, and Magic.<call-with-splat>(t, :m, array) when one is.
SafeNavLowersCallOnTemporary ==
    \A f \in Frames :
        (f.what.kind = "CSend" /\ ~f.thrown)
            => LET temp == TempOf(minted[f.m0 + 1])
                   t == MK_Local(temp)
                   fr == FrameOf(Receiver(f.what))
                   fs == FrameOf(CSendSendNode(f.what, temp))
                   plain == SelectSeq(CallArgs(f.what), LAMBDA a : a.kind # "BlockPass")
                   S == fs.tree
               IN /\ minted[f.m0 + 1].base = "<assignTemp>"
                  /\ fr.m0 = f.m0 + 1
                  /\ (f.m1 - f.m0) - (fr.m1 - fr.m0) - (fs.m1 - fs.m0) = 1
                  /\ f.tree = MK_InsSeq1(MK_Assign(t, fr.tree),
                                         MK_If(MK_Send0(t, Names_nil_p), MK_Nil, S))
                  /\ isa_tree(S, "Send")
                  /\ IF \E i \in DOMAIN plain : plain[i].kind = "Splat"
                     THEN /\ SendRecv(S) = MK_Constant("Magic")
                          /\ S.name = Names_callWithSplat
                          /\ Len(SendArgs(S)) = 3
                          /\ SendArgs(S)[1] = t
                          /\ SendArgs(S)[2] = MK_Symbol(f.what.name)
                     ELSE /\ SendRecv(S) = t
                          /\ S.name = f.what.name
                          /\ SendArgs(S) = [i \in DOMAIN plain |-> Lowered(plain[i])]

\* a safe-navigation call with an argument and a splat lowered
SafeNavWithSplat ==
    /\ pc = "lowered"
    /\ what.kind = "CSend"
    /\ Len(CallArgs(what)) = 2
    /\ CallArgs(what)[2].kind = "Splat"
    /\ InsSeqExpr(result).kids[3].name = Names_callWithSplat

\* the place of the splat among the targets, 0 without one
SplatAt(exprs) == IndexOfKind(exprs, "SplatLhs")

\* C13: the tree of a multiple assignment is an InsSeq whose first statement
\* is t = Magic.<expand-splat>(rhs', before, after), before and after
\* counting the targets on either side of the splat (all of them before
\* without a splat), then one statement per target in source order, and
\* whose expression is t; target k before the splat takes t[k - 1], the
\* j-th target from the end after the splat takes t[-j]; a nested Mlhs
\* takes that element as the right-hand side of its own expansion.
MasgnContract ==
    \A f \in Frames :
        (f.what.kind = "Masgn" /\ ~f.thrown)
            => LET exprs == f.what.kids[1].kids
                   n == Len(exprs)
                   sp == SplatAt(exprs)
                   named == sp # 0 /\ ~isa_tree(Lowered(exprs[sp].kids[1]), "EmptyTree")
                   before == IF sp = 0 THEN n ELSE sp - 1
                   after == IF sp = 0 THEN 0 ELSE n - sp
                   fr == FrameOf(f.what.kids[2])
                   t == MK_Local(TempOf(minted[fr.m1 + 1]))
                   stats == InsSeqStats(f.tree)
                   pos(k) == 1 + k - (IF sp # 0 /\ k > sp /\ ~named THEN 1 ELSE 0)
                   elem(k) == MK_Send1(t, Names_squareBrackets,
                                       MK_Int(IF sp = 0 \/ k < sp THEN k - 1 ELSE -(n - k + 1)))
               IN /\ isa_tree(f.tree, "InsSeq")
                  /\ minted[fr.m1 + 1].base = "<assignTemp>"
                  /\ InsSeqExpr(f.tree) = t
                  /\ Len(stats) = 1 + n - (IF sp # 0 /\ ~named THEN 1 ELSE 0)
                  /\ stats[1] = MK_Assign(t, MK_Send3(MK_Constant("Magic"), Names_expandSplat,
                                                      fr.tree, MK_Int(before), MK_Int(after)))
                  /\ \A k \in 1..n :
                        k # sp =>
                            IF exprs[k].kind = "Mlhs"
                            THEN /\ isa_tree(stats[pos(k)], "InsSeq")
                                 /\ SendArgs(stats[pos(k)].kids[1].kids[2])[1] = elem(k)
                            ELSE stats[pos(k)] = MK_Assign(Lowered(exprs[k]), elem(k))

\* x, y, *z, x, y = rhs lowered: two targets on either side of a named splat
MasgnAroundSplat ==
    /\ pc = "returned"
    /\ what.kind = "Masgn"
    /\ Len(what.kids[1].kids) = 5
    /\ SplatAt(what.kids[1].kids) = 3
    /\ Len(ClassDefRhs(result)) = 7

\* the If of the i-th when of a lowered case: i - 1 else branches down
RECURSIVE ElseAt(_, _)
ElseAt(t, i) == IF i = 1 THEN t ELSE ElseAt(t.kids[3], i - 1)

\* If(t1, true, If(t2, true, ... tk))
RECURSIVE OrFold(_)
OrFold(tests) ==
    IF Len(tests) = 1 THEN tests[1] ELSE MK_If(Head(tests), MK_True, OrFold(Tail(tests)))

\* C14, as the specification states it: the condition lowered for a when
\* with patterns p1 .. pk is If(test(p1), true, If(test(p2), true, ...
\* test(pk))), test(p) being p' === t with a scrutinee and p' without one,
\* so that the first pattern is tested first.
WhenPatternsInSourceOrder ==
    \A f \in Frames :
        (f.what.kind = "Case" /\ ~f.thrown)
            => LET hasTemp == CaseCondition(f.what).kind # "null"
                   t == MK_Local(TempOf(minted[f.m0 + 1]))
                   chain == IF hasTemp THEN InsSeqExpr(f.tree) ELSE f.tree
                   test(p) == IF hasTemp THEN MK_Send1(Lowered(p), Names_tripleEq, t)
                              ELSE Lowered(p)
               IN \A i \in DOMAIN CaseWhens(f.what) :
                     LET patterns == WhenPatterns(CaseWhens(f.what)[i])
                     IN Len(patterns) >= 2
                            => ElseAt(chain, i).kids[1]
                                   = OrFold([k \in DOMAIN patterns |-> test(patterns[k])])

\* C15: the tree of Ensure(body, fin) is, when body' is a Rescue, that
\* Rescue with fin' in its ensure slot and its body, cases and else as they
\* were, and otherwise Rescue(body', no cases, EmptyTree, fin'); the tree of
\* a Rescue has the lowered body and else, one RescueCase per Resbody in
\* source order and an EmptyTree ensure.
EnsureRescueContract ==
    /\ \A f \in Frames :
          (f.what.kind = "Ensure" /\ ~f.thrown)
              => LET body == Lowered(f.what.kids[1])
                     fin == Lowered(f.what.kids[2])
                 IN IF isa_tree(body, "Rescue")
                    THEN f.tree = MK_Rescue(RescueBody(body), RescueCases(body),
                                            RescueElse(body), fin)
                    ELSE f.tree = MK_Rescue(body, <<>>, MK_EmptyTree, fin)
    /\ \A f \in Frames :
          (f.what.kind = "Rescue" /\ ~f.thrown)
              => LET resbodies == SubSeq(f.what.kids, 3, Len(f.what.kids))
                 IN /\ f.tree = MK_Rescue(Lowered(f.what.kids[1]),
                                          [i \in DOMAIN resbodies |-> Lowered(resbodies[i])],
                                          Lowered(f.what.kids[2]), MK_EmptyTree)
                    /\ \A i \in DOMAIN resbodies :
                          /\ resbodies[i].kind = "Resbody"
                          /\ isa_tree(Lowered(resbodies[i]), "RescueCase")

\* begin; a&.m; rescue E => e; ...; rescue; ...; else; a&.m; ensure; a&.m; end
EnsureOverRescue ==
    /\ pc = "lowered"
    /\ what.kind = "Ensure"
    /\ what.kids[1].kind = "Rescue"
    /\ isa_tree(result, "Rescue")
    /\ Len(RescueCases(result)) = 2
    /\ ~isa_tree(RescueEnsure(result), "EmptyTree")
    /\ ~isa_tree(RescueElse(result), "EmptyTree")

\* the characters of a decimal literal without the underscores that
\* separate its digits
RECURSIVE LiteralDigits(_)
LiteralDigits(s) ==
    IF s = <<>> THEN <<>>
    ELSE IF Head(s) = "_" THEN LiteralDigits(Tail(s))
    ELSE <<Head(s)>> \o LiteralDigits(Tail(s))

\* the text is a decimal integer literal: digits, single underscores between them
WellFormedLiteral(s) ==
    /\ s # <<>>
    /\ \A i \in DOMAIN s : isdigit(s[i]) \/ s[i] = "_"
    /\ isdigit(s[1]) /\ isdigit(s[Len(s)])
    /\ \A i \in 1..(Len(s) - 1) : ~(s[i] = "_" /\ s[i + 1] = "_")

\* C16: an Integer literal whose text is malformed or out of range lowers to
\* the literal 0 with exactly one IntegerOutOfRange diagnostic and no
\* exception; an in-range literal lowers to its value with no diagnostic.
IntegerLiteralContract ==
    \A f \in Frames :
        f.what.kind = "Integer"
            => LET s == Chars(f.what.name.base)
                   mag == StripZeros(LiteralDigits(s))
                   inRange == WellFormedLiteral(s) /\ ~DigitsGreater(mag, LongMaxDigits)
               IN /\ ~f.thrown
                  /\ IF inRange
                     THEN f.tree = MK_Int(DigitsValue(mag, 0)) /\ f.e1 = f.e0
                     ELSE /\ f.tree = MK_Int(0)
                          /\ f.e1 = f.e0 + 1
                          /\ errors[f.e1] = [code |-> "IntegerOutOfRange", loc |-> f.what.loc]

\* what the clause does: the literal's longest leading run of digits is its value
IntegerPrefixContract ==
    \A f \in Frames :
        f.what.kind = "Integer"
            => LET s == Chars(f.what.name.base)
                   mag == StripZeros(DigitPrefix(s))
               IN /\ ~f.thrown
                  /\ IF DigitsGreater(mag, LongMaxDigits)
                     THEN /\ f.tree = MK_Int(0)
                          /\ f.e1 = f.e0 + 1
                          /\ errors[f.e1] = [code |-> "IntegerOutOfRange", loc |-> f.what.loc]
                     ELSE f.tree = MK_Int(DigitsValue(mag, 0)) /\ f.e1 = f.e0

\* the For with its single target put into a one-element Mlhs, as the parser
\* would have located it
WrappedFor(for_) ==
    [for_ EXCEPT !.kids[1] =
        Locate(P("Mlhs", noName, <<for_.kids[1]>>), Append(for_.loc, 1))]

\* C17: the tree of For(vars, expr, body) is the Send of each to expr' with
\* no arguments and a block whose only parameter is RestArg(t), t the
\* temporary the clause mints first, and whose body is InsSeq(m, body'), m
\* being the lowered multiple assignment of t to vars; and a For over a
\* single target that is not an Mlhs has the outcome of the For over the
\* one-element Mlhs of that target.
ForContract ==
    \A f \in Frames :
        f.what.kind = "For"
            => LET target == f.what.kids[1]
                   mint == minted[f.m0 + 1]
                   t == TempOf(mint)
                   targets == IF target.kind = "Mlhs" THEN target.kids ELSE <<target>>
                   wrapped == node2TreeImpl(WrappedFor(f.what), World0(FALSE), f.uc0)
               IN /\ ~f.thrown
                     => /\ mint.base = Names_forTemp.base
                        /\ \A i \in (f.m0 + 2)..f.m1 : TempOf(minted[i]) # t
                        /\ \E g \in Frames :
                              /\ g.what.kind = "Masgn" /\ ~g.thrown
                              /\ g.what.kids[1].kind = "Mlhs"
                              /\ g.what.kids[1].kids = targets
                              /\ g.what.kids[2].kind = "LVar" /\ g.what.kids[2].name = t
                              /\ f.m0 < g.m0 /\ g.m1 <= f.m1
                              /\ f.tree = MK_Send(Lowered(f.what.kids[2]), Names_each, <<>>, {},
                                                  <<MK_Block(<<MK_RestArg(MK_Local(t))>>,
                                                             MK_InsSeq(<<g.tree>>,
                                                                       Lowered(f.what.kids[3])))>>)
                  /\ target.kind # "Mlhs"
                     => /\ f.thrown = wrapped.w.exc
                        /\ f.tree = wrapped.tree
                        /\ f.uc1 = wrapped.uc
                        /\ f.m1 - f.m0 = Len(wrapped.w.mints)

\* for i in foo do a&.m end, and for @x in ...
ForOverSingleTarget ==
    /\ pc = "lowered"
    /\ what.kind = "For"
    /\ what.kids[1].kind = "IVarLhs"
    /\ what.kids[2].kind = "Send"
    /\ what.kids[3].kind = "CSend"
    /\ isa_tree(result, "Send") /\ result.name = Names_each
    /\ Len(minted) = 3

AsgnKinds == {"AndAsgn", "OrAsgn", "OpAsgn"}

\* the frame f of a compound assignment to the send o.m(a1..an) has the
\* shape the specification gives it
CompoundSendShape(f) ==
    LET left == f.what.kids[1]
        send == Lowered(left)
        o == IF left.kids[1].kind = "null" THEN MK_Self ELSE Lowered(left.kids[1])
        arg(a) == IF a.kind = "Splat" THEN MK_Splat(Lowered(a.kids[1])) ELSE Lowered(a)
        as == [i \in 1..(Len(left.kids) - 1) |-> arg(left.kids[i + 1])]
        n == Len(as)
        own == IF f.what.kind = "OpAsgn" THEN n + 1 ELSE n + 2
        temp(k) == MK_Local(TempOf(minted[f.m1 - own + k]))
        t_o == temp(1)
        t_as == [i \in 1..n |-> temp(i + 1)]
        t_r == temp(n + 2)
        read == MK_Send(t_o, left.name, t_as, send.flags, <<>>)
        value == IF f.what.kind = "OpAsgn"
                 THEN MK_Send1(read, f.what.name, Lowered(f.what.kids[2]))
                 ELSE Lowered(f.what.kids[2])
        write == MK_Send(t_o, addEq(left.name), Append(t_as, value), send.flags, <<>>)
        binds == <<MK_Assign(t_o, o)>> \o [i \in 1..n |-> MK_Assign(t_as[i], as[i])]
    IN /\ f.m1 - own >= FrameOf(f.what.kids[1]).m1
       /\ \A j, k \in 1..own : j # k => temp(j) # temp(k)
       /\ f.tree = CASE f.what.kind = "AndAsgn"
                          -> MK_InsSeq(Append(binds, MK_Assign(t_r, read)), MK_If(t_r, write, t_r))
                     [] f.what.kind = "OrAsgn"
                          -> MK_InsSeq(Append(binds, MK_Assign(t_r, read)), MK_If(t_r, t_r, write))
                     [] f.what.kind = "OpAsgn" -> MK_InsSeq(binds, write)

\* C18: a compound assignment to the send o.m(a1..an) binds o' and then each
\* ai' to a fresh temporary of its own, reads t_o.m(t_a1..t_an) and writes
\* t_o.m=(t_a1..t_an, value) with the flags of the original send; &&= gives
\* If(t_r, write, t_r) and ||= If(t_r, t_r, write), t_r bound to the read.
CompoundSendContract ==
    \A f \in Frames :
        (f.what.kind \in AsgnKinds /\ f.what.kids[1].kind = "Send" /\ ~f.thrown)
            => CompoundSendShape(f)

\* the same, for sends that pass no splat
CompoundPlainSendContract ==
    \A f \in Frames :
        (/\ f.what.kind \in AsgnKinds /\ f.what.kids[1].kind = "Send" /\ ~f.thrown
         /\ \A i \in DOMAIN f.what.kids[1].kids : f.what.kids[1].kids[i].kind # "Splat")
            => CompoundSendShape(f)

\* C19: a compound assignment whose left side lowers to a constant returns
\* EmptyTree without raising, adds exactly one diagnostic to those of its
\* operands, a NoConstantReassignment at the assignment, and mints nothing
\* beyond what its operands mint.
ConstantReassignmentContract ==
    \A f \in Frames :
        LET fl == FrameOf(f.what.kids[1])
            fr == FrameOf(f.what.kids[2])
        IN (/\ f.what.kind \in AsgnKinds
            /\ f.what.kids[1].kind = "ConstLhs"
            /\ ~fl.thrown /\ ~fr.thrown)
               => /\ isa_tree(fl.tree, "UnresolvedConstant")
                  /\ ~f.thrown
                  /\ isa_tree(f.tree, "EmptyTree")
                  /\ f.e1 = fr.e1 + 1
                  /\ errors[f.e1] = [code |-> "NoConstantReassignment", loc |-> f.what.loc]
                  /\ f.m1 = fr.m1
                  /\ f.uc1 = fr.uc1

\* A::B += a&.m
ConstantReassigned ==
    /\ pc = "lowered"
    /\ what.kind = "OpAsgn"
    /\ what.kids[1].kind = "ConstLhs"
    /\ what.kids[1].kids[1].kind = "Const"
    /\ what.kids[2].kind = "CSend"
    /\ isa_tree(result, "EmptyTree")
    /\ Len(errors) = 1
    /\ Len(minted) = 1

\* loc lies strictly inside the node located at outer
StrictlyInside(loc, outer) ==
    Len(loc) > Len(outer) /\ SubSeq(loc, 1, Len(outer)) = outer

\* C20: DefS and SClass on a receiver other than the literal self report
\* exactly one InvalidSingletonDef, at the receiver, return EmptyTree and
\* lower nothing of the definition (no frame, diagnostic or temporary comes
\* from inside it); on self, DefS returns a MethodDef flagged SelfMethod and
\* SClass a ClassDef of kind class.
SingletonDefContract ==
    \A f \in Frames :
        f.what.kind \in {"DefS", "SClass"}
            => IF f.what.kids[1].kind # "Self"
               THEN /\ ~f.thrown
                    /\ isa_tree(f.tree, "EmptyTree")
                    /\ f.e1 = f.e0 + 1
                    /\ errors[f.e1] = [code |-> "InvalidSingletonDef", loc |-> f.what.kids[1].loc]
                    /\ f.m1 = f.m0
                    /\ f.uc1 = f.uc0
                    /\ \A g \in Frames : ~StrictlyInside(g.what.loc, f.what.loc)
                    /\ \A i \in DOMAIN errors : ~StrictlyInside(errors[i].loc, f.what.loc)
                                                   \/ i = f.e1
               ELSE ~f.thrown
                       => IF f.what.kind = "DefS"
                          THEN isa_tree(f.tree, "MethodDef") /\ "SelfMethod" \in f.tree.flags
                          ELSE isa_tree(f.tree, "ClassDef") /\ f.tree.flags = {"Class"}

\* def a.f(x = a&.m); a&.m; end, and def self.g ... end
SingletonDefOnOtherReceiver ==
    /\ pc = "lowered"
    /\ what.kind = "DefS"
    /\ what.kids[1].kind = "LVar"
    /\ what.kids[3].kind = "CSend"
    /\ isa_tree(result, "EmptyTree")
    /\ Len(errors) = 1
    /\ minted = <<>>

\* the statement of the named splat target in the tree of the Masgn frame f
SplatStat(f) == InsSeqStats(f.tree)[1 + SplatAt(f.what.kids[1].kids)]

NamedSplat(f) ==
    /\ f.what.kind = "Masgn" /\ ~f.thrown
    /\ SplatAt(f.what.kids[1].kids) # 0
    /\ ~isa_tree(Lowered(f.what.kids[1].kids[SplatAt(f.what.kids[1].kids)].kids[1]), "EmptyTree")

\* the slice statement with the given range arguments
SplatSlice(f, last, exclusive) ==
    LET exprs == f.what.kids[1].kids
        sp == SplatAt(exprs)
        t == InsSeqExpr(f.tree)
    IN MK_Assign(Lowered(exprs[sp].kids[1]),
                 MK_Send1(t, Names_slice,
                          MK_Send3(MK_Constant("Range"), Names_new, MK_Int(sp - 1),
                                   MK_Int(last), exclusive)))

\* C21, as the specification states it: the named splat target takes
\* t.slice(Range.new(left, -right, exclusive)), exclusive being true exactly
\* when no target follows the splat (right = 0).
SplatSliceExclusiveWhenLast ==
    \A f \in Frames :
        NamedSplat(f)
            => LET right == Len(f.what.kids[1].kids) - SplatAt(f.what.kids[1].kids)
               IN SplatStat(f) = SplatSlice(f, -right, IF right = 0 THEN MK_True ELSE MK_False)

\* C21, amended: with right > 0 targets after the splat the range is
\* Range.new(left, -right, true), exclusive of the first target after it;
\* with none it is Range.new(left, -1, false), inclusive of the last element.
SplatSliceContract ==
    \A f \in Frames :
        NamedSplat(f)
            => LET right == Len(f.what.kids[1].kids) - SplatAt(f.what.kids[1].kids)
               IN SplatStat(f) = IF right = 0 THEN SplatSlice(f, -1, MK_False)
                                 ELSE SplatSlice(f, -right, MK_True)

\* x, *y = a lowered: no target follows the named splat
SplatTargetLast ==
    /\ pc = "lowered"
    /\ what.kind = "Masgn"
    /\ Len(what.kids[1].kids) = 2
    /\ SplatAt(what.kids[1].kids) = 2
    /\ what.kids[1].kids[2].kids[1].kind = "LVarLhs"
    /\ isa_tree(result, "InsSeq")
    /\ SendArgs(SendArgs(result.kids[3].kids[2])[1])[3] = MK_False

\* the pieces of an interpolated form
Pieces(node) == IF node.kind = "Regexp" THEN Tail(node.kids) ELSE node.kids

\* the concatenation inside the tree of the frame f of an interpolated form
Interpolated(f) ==
    CASE f.what.kind = "DString" -> f.tree
      [] f.what.kind \in {"XString", "Regexp"} -> SendArgs(f.tree)[1]
      [] f.what.kind = "DSymbol" -> IF Pieces(f.what) = <<>> THEN f.tree ELSE SendRecv(f.tree)

InterpolatedKinds == {"DString", "XString", "Regexp", "DSymbol"}

\* q1'.concat(q2')...concat(qk'), wrapped[i] telling which pieces get .to_s
RECURSIVE ConcatFold(_, _, _)
ConcatFold(q, k, wrapped) ==
    LET piece == IF wrapped[k] THEN MK_Send0(Lowered(q[k]), Names_to_s) ELSE Lowered(q[k])
    IN IF k = 1 THEN piece ELSE MK_Send1(ConcatFold(q, k - 1, wrapped), Names_concat, piece)

\* C22: in every interpolated form the pieces are concatenated left to
\* right with concat, a piece being wrapped in to_s exactly when it does not
\* lower to a string literal; no piece gives the empty string literal
\* (the empty symbol literal for DSymbol).
InterpolationWrapsNonStrings ==
    \A f \in Frames :
        (f.what.kind \in InterpolatedKinds /\ ~f.thrown)
            => LET q == Pieces(f.what)
               IN IF q = <<>>
                  THEN Interpolated(f) = IF f.what.kind = "DSymbol" THEN MK_Symbol(Names_empty)
                                         ELSE MK_String(Names_empty)
                  ELSE Interpolated(f)
                          = ConcatFold(q, Len(q),
                                       [i \in DOMAIN q |-> ~isStringLit(Lowered(q[i]))])

\* what desugarDString builds: every piece after the first gets to_s
InterpolationAsBuilt ==
    \A f \in Frames :
        (f.what.kind \in InterpolatedKinds /\ ~f.thrown /\ Pieces(f.what) # <<>>)
            => LET q == Pieces(f.what)
               IN Interpolated(f)
                     = ConcatFold(q, Len(q),
                                  [i \in DOMAIN q |->
                                      \/ ~isStringLit(Lowered(q[i]))
                                      \/ i > 1 /\ f.what.kind # "DSymbol"])

\* C23: a Send with a splat among its arguments lowers to a Send of
\* <call-with-splat> to Magic with three arguments: the receiver (Self when
\* absent), the symbol of the method, and the lowering of the Array of the
\* arguments other than the block-pass, in source order; a Send without a
\* splat lowers to a direct Send of those arguments in source order.  Either
\* way the block-pass is not an argument and the Send has a block exactly
\* when there is one.
SendContract ==
    \A f \in Frames :
        (f.what.kind = "Send" /\ ~f.thrown)
            => LET args == CallArgs(f.what)
                   bp == IndexOfKind(args, "BlockPass")
                   plain == IF bp # 0 THEN RemoveAt(args, bp) ELSE args
                   rec == IF Receiver(f.what).kind = "null" THEN MK_Self
                          ELSE Lowered(Receiver(f.what))
               IN /\ isa_tree(f.tree, "Send")
                  /\ Len(f.tree.block) = IF bp # 0 THEN 1 ELSE 0
                  /\ IF \E i \in DOMAIN args : args[i].kind = "Splat"
                     THEN \E g \in Frames :
                             /\ g.what.kind = "Array" /\ g.what.kids = plain
                             /\ g.what.loc = f.what.loc
                             /\ f.m0 <= g.m0 /\ g.m1 <= f.m1
                             /\ SendRecv(f.tree) = MK_Constant("Magic")
                             /\ f.tree.name = Names_callWithSplat
                             /\ SendArgs(f.tree) = <<rec, MK_Symbol(f.what.name), g.tree>>
                     ELSE /\ SendRecv(f.tree) = rec
                          /\ f.tree.name = f.what.name
                          /\ SendArgs(f.tree) = [i \in DOMAIN plain |-> Lowered(plain[i])]

\* foo(*a, &a) lowered
SplatCallWithBlockPass ==
    /\ pc = "lowered"
    /\ what.kind = "Send"
    /\ Len(CallArgs(what)) = 2
    /\ CallArgs(what)[1].kind = "Splat"
    /\ CallArgs(what)[2].kind = "BlockPass"
    /\ isa_tree(result, "Send")
    /\ result.name = Names_callWithSplat
    /\ Len(result.block) = 1

\* the parts of an Array or Hash literal from element k on, run being the
\* lowered elements since the last splat: one node for each maximal run of
\* plain elements, one conversion for each splat
RECURSIVE LiteralParts(_, _, _, _)
LiteralParts(isArray, e, k, run) ==
    LET node == IF isArray THEN MK_Array(run)
                ELSE MK_Hash([i \in DOMAIN run |-> run[i][1]], [i \in DOMAIN run |-> run[i][2]])
        closed == IF run = <<>> THEN <<>> ELSE <<node>>
    IN IF k > Len(e) THEN closed
       ELSE IF e[k].kind \in {"Splat", "Kwsplat"}
       THEN closed \o <<MK_Send0(Lowered(e[k].kids[1]),
                                 IF isArray THEN Names_to_a ELSE Names_to_hash)>>
                   \o LiteralParts(isArray, e, k + 1, <<>>)
       ELSE LiteralParts(isArray, e, k + 1,
                         Append(run, IF isArray THEN Lowered(e[k])
                                     ELSE <<Lowered(e[k].kids[1]), Lowered(e[k].kids[2])>>))

\* p1.fun(p2).fun(p3)...
RECURSIVE JoinParts(_, _)
JoinParts(parts, fun) ==
    IF Len(parts) = 1 THEN parts[1]
    ELSE MK_Send1(JoinParts(SubSeq(parts, 1, Len(parts) - 1), fun), fun, parts[Len(parts)])

MintsBeforeBlock(f) ==
    LET args == CallArgs(f.what)
        bp == IndexOfKind(args, "BlockPass")
        plain == IF bp # 0 THEN RemoveAt(args, bp) ELSE args
    IN IF \E i \in DOMAIN args : args[i].kind = "Splat"
       THEN (CHOOSE g \in Frames : /\ g.what.kind = "Array" /\ g.what.kids = plain
                                   /\ g.what.loc = f.what.loc).m1
       ELSE IF plain # <<>> THEN FrameOf(plain[Len(plain)]).m1
       ELSE IF Receiver(f.what).kind # "null" THEN FrameOf(Receiver(f.what)).m1
       ELSE f.m0

\* C25: a block-pass &x whose x lowers to the symbol :m becomes the block
\* { |t| t.m }, any other the block { |*t| Magic.<call-with-splat>(x'.to_proc,
\* :call, t) }; t is the one temporary minted for the conversion, after x is
\* lowered; without a block-pass there is no block and nothing is minted.
BlockPassContract ==
    \A f \in Frames :
        (f.what.kind = "Send" /\ ~f.thrown)
            => LET args == CallArgs(f.what)
                   bp == IndexOfKind(args, "BlockPass")
                   x == args[bp].kids[1]
                   t == MK_Local(TempOf(minted[f.m1]))
               IN IF bp = 0
                  THEN f.tree.block = <<>> /\ f.m1 = MintsBeforeBlock(f)
                  ELSE /\ FrameOf(x).m0 = MintsBeforeBlock(f)
                       /\ f.m1 = FrameOf(x).m1 + 1
                       /\ minted[f.m1].base = Names_blockPassTemp.base
                       /\ f.tree.block
                             = IF isa_tree(Lowered(x), "Symbol")
                               THEN <<MK_Block(<<t>>, MK_Send0(t, Lowered(x).name))>>
                               ELSE <<MK_Block(<<MK_RestArg(t)>>,
                                               MK_Send3(MK_Constant("Magic"), Names_callWithSplat,
                                                        MK_Send0(Lowered(x), Names_to_proc),
                                                        MK_Symbol(Names_call), t))>>

\* foo(a, &:m) lowered
SymbolBlockPass ==
    /\ pc = "lowered"
    /\ what.kind = "Send"
    /\ Len(CallArgs(what)) = 2
    /\ CallArgs(what)[2].kind = "BlockPass"
    /\ CallArgs(what)[2].kids[1].kind = "Symbol"
    /\ Len(result.block) = 1
    /\ Len(minted) = 1

\* the frames of the clauses that lower formals and a body together
LowersFormals(f) ==
    /\ ~f.thrown
    /\ \/ f.what.kind \in {"DefMethod", "Block"}
       \/ f.what.kind = "DefS" /\ f.what.kids[1].kind = "Self"

\* the Block or MethodDef node the frame built from its formals and body
BuiltFromFormals(f) ==
    IF f.what.kind # "Block" THEN f.tree
    ELSE IF isa_tree(f.tree, "Send") THEN f.tree.block[1]
    ELSE f.tree.kids[Len(f.tree.kids)].kids[3].block[1]

\* the frame of the multiple assignment synthesized for the formal arg
DestructureOf(arg) ==
    CHOOSE g \in Frames : /\ g.what.kind = "Masgn"
                          /\ g.what.loc = arg.loc
                          /\ g.what.kids[1] = arg

\* C26: one parameter per formal, in source order; a destructuring formal
\* becomes the Local of a temporary minted for it alone, and one multiple
\* assignment from that temporary to its pattern; the body is
\* InsSeq(the assignments in formal order, body') when there is one, and
\* body' otherwise.
FormalsContract ==
    \A f \in Frames :
        LowersFormals(f)
            => LET n == Len(f.what.kids)
                   argnode == f.what.kids[n - 1]
                   bodynode == f.what.kids[n]
                   formals == IF argnode.kind = "null" THEN <<>> ELSE argnode.kids
                   isMlhs(i) == formals[i].kind = "Mlhs"
                   temp(i) == TempOf(minted[DestructureOf(formals[i]).m0])
                   built == BuiltFromFormals(f)
                   mlhss == SelectSeq([i \in DOMAIN formals |-> i], isMlhs)
                   destructures == [k \in DOMAIN mlhss |-> DestructureOf(formals[mlhss[k]]).tree]
               IN /\ built.n = Len(formals)
                  /\ Len(built.kids) = Len(formals) + 1
                  /\ \A i \in DOMAIN formals :
                        IF isMlhs(i)
                        THEN /\ built.kids[i] = MK_Local(temp(i))
                             /\ temp(i).base = Names_destructureArg.base
                             /\ DestructureOf(formals[i]).what.kids[2]
                                   = PAt("LVar", temp(i), <<>>, formals[i].loc)
                             /\ \A j \in DOMAIN formals :
                                   (isMlhs(j) /\ j # i) => temp(j) # temp(i)
                        ELSE built.kids[i] = Lowered(formals[i])
                  /\ built.kids[Len(formals) + 1]
                        = IF mlhss # <<>> THEN MK_InsSeq(destructures, Lowered(bodynode))
                          ELSE Lowered(bodynode)

\* a definition with two destructuring formals around a plain one
TwoDestructuringFormals ==
    /\ pc = "lowered"
    /\ what.kind = "DefMethod"
    /\ what.kids[1].kind = "Args"
    /\ Len(what.kids[1].kids) = 3
    /\ isa_tree(result, "MethodDef")
    /\ isa_tree(result.kids[4], "InsSeq")
    /\ Len(result.kids[4].kids) = 3

\* the names minted while node was lowered
Span(node) == IF node.kind = "null" THEN 0 ELSE FrameOf(node).m1 - FrameOf(node).m0

\* C27: WhilePost and UntilPost over a Kwbegin body are
\* While(true, InsSeq(t = body', If(stop, Break(t), EmptyTree))) with t the
\* one temporary of the clause, stop being cond'.!() for WhilePost and cond'
\* for UntilPost; over any other body they are While(cond', body') and
\* While(cond'.!(), body') and the clause mints nothing.
PostLoopContract ==
    \A f \in Frames :
        (f.what.kind \in {"WhilePost", "UntilPost"} /\ ~f.thrown)
            => LET cond == f.what.kids[1]
                   body == f.what.kids[2]
                   isWhile == f.what.kind = "WhilePost"
                   negated == MK_Send0(Lowered(cond), Names_bang)
                   t == TempOf(minted[f.m1])
                   stop == IF isWhile THEN negated ELSE Lowered(cond)
               IN IF body.kind = "Kwbegin"
                  THEN /\ f.m1 - f.m0 = Span(body) + Span(cond) + 1
                       /\ minted[f.m1].base = Names_forTemp.base
                       /\ f.tree = MK_While(MK_True,
                                       MK_InsSeq(<<MK_Assign(MK_Local(t), Lowered(body))>>,
                                                 MK_If(stop, MK_Break(MK_Local(t)), MK_EmptyTree)))
                  ELSE /\ f.m1 - f.m0 = Span(body) + Span(cond)
                       /\ f.tree = MK_While(IF isWhile THEN Lowered(cond) ELSE negated,
                                            Lowered(body))

\* begin a&.m end until a&.m, lowered
DoUntilLowered ==
    /\ pc = "lowered"
    /\ what.kind = "UntilPost"
    /\ what.kids[2].kind = "Kwbegin"
    /\ what.kids[1].kind = "CSend"
    /\ what.kids[2].kids # <<>>
    /\ isa_tree(result, "While")
    /\ Len(minted) = 3

\* C28: of two invocations of node2Tree that run concurrently and both
\* raise, each has emitted exactly one InternalError when it has thrown,
\* however their reads, writes and resets of locReported interleave.
EachInvocationReportsOnce ==
    \A t \in Threads :
        invocations[t].pc = "thrown" => Len(invocations[t].errs) = 1

\* when both invocations have thrown, at least one of them has emitted an
\* InternalError
SomeInvocationReports ==
    (\A t \in Threads : invocations[t].pc = "thrown")
        => \E t \in Threads : invocations[t].errs # <<>>

\* the half of C28 about duplication: no invocation emits a second
\* InternalError
NoInvocationReportsTwice ==
    \A t \in Threads : Len(invocations[t].errs) <= 1

\* C29: the counter starts at 1 and is incremented before each use, so the
\* first temporary carries 2; and however many temporaries the counter
\* numbers, none after the first receives the first one's (category, base
\* name, counter) triple again.
CounterNeverReissues ==
    /\ longBegin.n = 0 => longBegin.uniqueCounter.val = 1
    /\ longBegin.n >= 1 => longBegin.first.num = 2
    /\ longBegin.n > 1 => Triple(longBegin.last) # Triple(longBegin.first)

\* the same, for as many temporaries as the counter has values past the
\* first: the k-th temporary carries k + 1
CounterCountsUp ==
    (longBegin.n >= 1 /\ longBegin.n < U2Modulus - 1)
        => /\ longBegin.last.num = longBegin.n + 1
           /\ longBegin.uniqueCounter.val = longBegin.n + 1
           /\ (longBegin.n > 1 => longBegin.last.num # longBegin.first.num)

\* C30: a compound assignment whose operands were lowered without an
\* exception is lowered without one, whatever its left side lowers to, a
\* safe-navigation call included.
CompoundAssignmentNeverRaises ==
    \A f \in Frames :
        (/\ f.what.kind \in AsgnKinds
         /\ \A i \in DOMAIN f.what.kids : ~FrameOf(f.what.kids[i]).thrown)
            => ~f.thrown

\* what the clauses do: with operands lowered without an exception, the
\* compound assignment raises exactly when its left side lowers to neither
\* a Send, a reference nor a constant
CompoundAssignmentRaisesOnOtherOnly ==
    \A f \in Frames :
        (/\ f.what.kind \in AsgnKinds
         /\ \A i \in DOMAIN f.what.kids : ~FrameOf(f.what.kids[i]).thrown)
            => (f.thrown <=> /\ ~isa_tree(Lowered(f.what.kids[1]), "Send")
                             /\ ~isa_reference(Lowered(f.what.kids[1]))
                             /\ ~isa_tree(Lowered(f.what.kids[1]), "UnresolvedConstant"))

====
